---- MODULE Spec2Model ----
(***************************************************************************)
(* Model of the academic analytics functions of the Streamlit reporting    *)
(* application (pages/*.py).  The report functions are pure functions of   *)
(* the loaded collections (data_collections); every one is an operator,    *)
(* and the state machine applies them to bounded collections.              *)
(*                                                                         *)
(* Encodings.  A grade cell is an integer: a value >= 0 is a Python number,*)
(* None, INC and DROPPED stand for None and the strings "INC" and          *)
(* "Dropped".  Percentages and GPAs, which the code rounds to 2 decimals,  *)
(* are integers in hundredths (8250 is 82.50).  A Python exception is the  *)
(* result kind "raise".                                                    *)
(***************************************************************************)
EXTENDS Integers, Sequences, FiniteSets, TLC

VARIABLES
    dist_grades,   \* the list handed to compute_distribution
    grades,        \* data_collections["grades"]        (Old schema)
    subjects,      \* data_collections["subjects"]      (Old schema)
    newGrades,     \* data_collections["newGrades"]     (New schema)
    newSubjects,   \* data_collections["newSubjects"]   (New schema)
    newSections,   \* data_collections["newSections"]   (New schema)
    students,      \* data_collections["students"]      (Old schema)
    newStudents,   \* data_collections["newStudents"]   (New schema)
    semesters,     \* data_collections["semesters"]     (Old schema)
    newSemesters,  \* data_collections["newSemesters"]  (New schema)
    newProfessors, \* data_collections["newProfessors"] (New schema)
    curriculums,   \* data_collections["curriculums"]   (New schema)
    newAdmin,      \* data_collections["newAdmin"]      (accounts)
    curriculum_type, \* st.session_state.curriculum_type
    session,       \* st.session_state: logged_in, username, role
    page,          \* the script of the multipage app the browser shows
    cache_file,    \* data_cache.pkl, the CACHE_FILE of data_collection.py
    db,            \* the collections of the MongoDB database
    load,          \* the position and the locals of load_collections()
    cache,         \* the pickle files of the cache/ directory
    out            \* the value returned by the last report function run

\* the loaded collections and the list argument
collections == <<dist_grades, grades, subjects, newGrades, newSubjects,
                 newSections, students, newStudents, semesters, newSemesters,
                 newProfessors, curriculums, newAdmin>>

\* the browser session
browser == <<session, page>>

\* the state load_collections() works on
loader == <<cache_file, db, load>>

vars == <<collections, curriculum_type, browser, loader, cache, out>>

\* what no report function changes
inputs == <<collections, curriculum_type, browser, loader>>

----------------------------------------------------------------------------
(* Bounds *)

MaxGrades == 6      \* longest list given to compute_distribution
MaxSubjects == 3    \* most enrollments of the student whose GPA is computed
MaxEnroll == 2      \* most enrollments in the collections of a class comparison

----------------------------------------------------------------------------
(* Python values *)

None == -1
INC == -2
DROPPED == -3

\* isinstance(grade, (int, float))
IsNumber(g) == g >= 0

NoOutput == [fn |-> "none", arg |-> 0, val |-> 0]

RECURSIVE SumSeq(_)
SumSeq(s) == IF s = <<>> THEN 0 ELSE Head(s) + SumSeq(Tail(s))

\* round(num / den, 2) in hundredths, for num >= 0 and den > 0.  Python
\* rounds a float that lies exactly between two results to the even one;
\* such a quotient needs a denominator with a factor 8, and is then exactly
\* representable, so the float and the exact quotient round alike.
round2(num, den) ==
    LET q == (num * 100) \div den
        r == (num * 100) % den
    IN  IF 2 * r < den THEN q
        ELSE IF 2 * r > den THEN q + 1
        ELSE IF q % 2 = 0 THEN q ELSE q + 1

----------------------------------------------------------------------------
(* pages/class_grade.py : grade distribution *)

GRADE_BINS == <<
    [label |-> "95-100 (%)",   low |-> 95, high |-> 100],
    [label |-> "90-94 (%)",    low |-> 90, high |-> 94],
    [label |-> "85-89 (%)",    low |-> 85, high |-> 89],
    [label |-> "80-84 (%)",    low |-> 80, high |-> 84],
    [label |-> "75-79 (%)",    low |-> 75, high |-> 79],
    [label |-> "Below 75 (%)", low |-> 0,  high |-> 74] >>

\* sum(1 for g in grades if low <= g <= high)
BinCount(gs, b) == Cardinality({i \in DOMAIN gs : b.low <= gs[i] /\ gs[i] <= b.high})

\* compute_distribution without its guard for the empty list: the division
\* 0 / 0 of every bin rendered as None
compute_distribution_NoEmptyGuard(gs) ==
    LET total == Len(gs) IN
    IF total = 0
    THEN [pct |-> [i \in DOMAIN GRADE_BINS |-> None], total |-> 0]
    ELSE [pct |-> [i \in DOMAIN GRADE_BINS |->
                     round2(BinCount(gs, GRADE_BINS[i]) * 100, total)],
          total |-> total]

\* compute_distribution(grades): pct[i] is the percentage of bin i in
\* hundredths, total is the "Total S" entry.
compute_distribution(gs) ==
    LET total == Len(gs) IN
    IF total = 0
    THEN [pct |-> [i \in DOMAIN GRADE_BINS |-> 0], total |-> 0]
    ELSE [pct |-> [i \in DOMAIN GRADE_BINS |->
                     round2(BinCount(gs, GRADE_BINS[i]) * 100, total)],
          total |-> total]

\* Grades the distribution is exercised with: one inside every bin.
DistGradeValues == {60, 77, 82, 87, 92, 97}

\* a Mongo collection keyed by _id with no documents: {s["_id"]: s for s in []}
EmptyDict == [c \in {} |-> 0]

NoOldCollections ==
    /\ grades = <<>>
    /\ subjects = EmptyDict
    /\ students = {}
    /\ semesters = EmptyDict

NoNewCollections ==
    /\ newGrades = <<>>
    /\ newSubjects = EmptyDict
    /\ newSections = <<>>
    /\ newProfessors = {}
    /\ curriculums = <<>>
    /\ newStudents = {}
    /\ newSemesters = EmptyDict

NoCollections == NoOldCollections /\ NoNewCollections

\* pages/*.py : CACHE_DIR files read by load_cache and written by save_cache
CacheFiles == {"old_curriculum.pkl", "new_curriculum.pkl",
               "old_pass_fail.pkl", "new_pass_fail.pkl",
               "subject_difficulty_Old Curriculum_1.pkl",
               "subject_difficulty_Old Curriculum_2.pkl",
               "subject_difficulty_New Curriculum_1.pkl",
               "subject_difficulty_New Curriculum_2.pkl",
               "old_incomplete.pkl", "new_incomplete.pkl",
               "intervention_Old Curriculum_1.pkl",
               "intervention_Old Curriculum_2.pkl"}

NoFile == [exists |-> FALSE, data |-> 0]

\* load_cache(file_path): the unpickled content, or None when no file exists
load_cache(file) == cache[file]

\* save_cache(data, file_path)
save_cache(data, file) == [cache EXCEPT ![file] = [exists |-> TRUE, data |-> data]]

EmptyCache == [f \in CacheFiles |-> NoFile]

\* a browser session that has not run a script yet, and no accounts
NoSession ==
    /\ newAdmin = <<>>
    /\ session = [logged_in |-> "absent", username |-> "absent", role |-> "absent"]
    /\ page = "none"

\* load_collections() has returned and nothing of it is looked at
NoLoad ==
    /\ cache_file = [state |-> "missing", data |-> EmptyDict]
    /\ db = EmptyDict
    /\ load = [pc |-> "done", data_collections |-> EmptyDict, pending |-> <<>>,
               queried |-> {}, result |-> EmptyDict]

InitDist ==
    /\ dist_grades \in UNION {[1..n -> DistGradeValues] : n \in 0..MaxGrades}
    /\ NoCollections
    /\ curriculum_type = "Old Curriculum"
    /\ cache = EmptyCache
    /\ out = NoOutput
    /\ NoSession
    /\ NoLoad

\* a caller (fetch_distribution_old / fetch_distribution_new) applies
\* compute_distribution to the grade list of one course
ComputeDistribution ==
    /\ out' = [fn |-> "compute_distribution", arg |-> dist_grades,
               val |-> compute_distribution(dist_grades)]
    /\ UNCHANGED <<inputs, cache>>

NextDist == ComputeDistribution

SpecDist == InitDist /\ [][NextDist]_vars

PctSum(d) == SumSeq([i \in 1..Len(GRADE_BINS) |-> d.pct[i]])

\* C1: for every non-empty list of grades in [0,100] the six bin
\* percentages returned by compute_distribution sum to 100.00 +/- 0.01.
C1_PercentagesSumTo100 ==
    (out.fn = "compute_distribution" /\ out.arg # <<>>)
        => (PctSum(out.val) >= 9999 /\ PctSum(out.val) <= 10001)

\* C24: for an empty list of grades compute_distribution reports 0 for
\* every bin and a total count of 0.
C24_EmptyListAllZero ==
    (out.fn = "compute_distribution" /\ out.arg = <<>>) =>
        /\ \A i \in DOMAIN GRADE_BINS : out.val.pct[i] = 0
        /\ out.val.total = 0

C24_Witness ==
    /\ out.fn = "compute_distribution"
    /\ out.arg = <<>>
    /\ out.val.total = 0

----------------------------------------------------------------------------
(* Results of a computation *)

Value(v) == [kind |-> "value", v |-> v]
NoneResult == [kind |-> "None", v |-> 0]
Raise == [kind |-> "raise", v |-> 0]

Min(a, b) == IF a < b THEN a ELSE b

\* sum of f[1..n]
RECURSIVE SumTo(_, _)
SumTo(f, n) == IF n = 0 THEN 0 ELSE f[n] + SumTo(f, n - 1)

----------------------------------------------------------------------------
(* Subject documents.  A document is a record whose Units field holds the  *)
(* stored value, None, or MISSING when the document has no such key.       *)

MISSING == -4

\* subjects.get(code, {}).get("Units", 3)
UnitsOf(subjs, code) ==
    IF code \in DOMAIN subjs /\ subjs[code].Units # MISSING
    THEN subjs[code].Units
    ELSE 3

\* zip(a, b) stops at the shorter list
ZipLen(a, b) == Min(Len(a), Len(b))

----------------------------------------------------------------------------
(* pages/highest.py : GPA of the Top Performers screen *)

\* WeightedGpa with the slip of counting a cell that holds no number as
\* the grade 0 with its units
WeightedGpa_NullAsZero(gs, us) ==
    LET n == Len(gs)
        total_points == SumTo([i \in 1..n |-> IF IsNumber(gs[i]) THEN gs[i] * us[i] ELSE 0], n)
        total_units == SumTo([i \in 1..n |-> IF us[i] = None THEN 0 ELSE us[i]], n)
    IN  IF \E i \in 1..n : IsNumber(gs[i]) /\ us[i] = None THEN Raise
        ELSE IF total_units > 0 THEN Value(round2(total_points, total_units))
        ELSE NoneResult

\* the loop of compute_gpa_old / compute_gpa_new over the (grade, units)
\* pairs it visits: grade * units raises TypeError when units is None
WeightedGpa(gs, us) ==
    LET n == Len(gs)
        numeric == {i \in 1..n : IsNumber(gs[i])}
    IN  IF \E i \in numeric : us[i] = None THEN Raise
        ELSE LET total_points == SumTo([i \in 1..n |-> IF i \in numeric THEN gs[i] * us[i] ELSE 0], n)
                 total_units == SumTo([i \in 1..n |-> IF i \in numeric THEN us[i] ELSE 0], n)
             IN  IF total_units > 0 THEN Value(round2(total_points, total_units))
                 ELSE NoneResult

\* compute_gpa_old(grades, subjects)
compute_gpa_old(g, subjs) ==
    LET n == ZipLen(g.SubjectCodes, g.Grades)
    IN  WeightedGpa([i \in 1..n |-> g.Grades[i]],
                    [i \in 1..n |-> UnitsOf(subjs, g.SubjectCodes[i])])

\* compute_gpa_new(student_id, term_id, new_grades, new_subjects);
\* g["studentId"], g["termId"] and g["subjectId"] raise KeyError on a
\* document without the key, MISSING standing for the absent key
compute_gpa_new(student_id, term_id, new_grades, new_subjects) ==
    LET InScope(g) == g.studentId = student_id /\ g.termId = term_id
        NoKey(g) == \/ g.studentId = MISSING
                    \/ g.studentId = student_id /\ g.termId = MISSING
                    \/ InScope(g) /\ g.subjectId = MISSING
        rows == SelectSeq(new_grades, InScope)
        n == Len(rows)
    IN  IF \E i \in 1..Len(new_grades) : NoKey(new_grades[i]) THEN Raise
        ELSE WeightedGpa([i \in 1..n |-> rows[i].numericGrade],
                         [i \in 1..n |-> UnitsOf(new_subjects, rows[i].subjectId)])

----------------------------------------------------------------------------
(* pages/student_academic.py : GPA of the Academic Standing screen *)

\* calculate_gpa(grades, units): None becomes 0 on both sides; a string
\* grade times its units is a string, which sum() cannot add to 0
calculate_gpa(gs, us) ==
    IF gs = <<>> \/ us = <<>> THEN Value(0)
    ELSE LET n == ZipLen(gs, us)
             cg == [i \in 1..n |-> IF gs[i] = None THEN 0 ELSE gs[i]]
             cu == [i \in 1..n |-> IF us[i] = None THEN 0 ELSE us[i]]
         IN  IF \E i \in 1..n : ~IsNumber(cg[i]) THEN Raise
             ELSE LET total_points == SumTo([i \in 1..n |-> cg[i] * cu[i]], n)
                      total_units == SumTo(cu, n)
                  IN  IF total_units > 0 THEN Value(round2(total_points, total_units))
                      ELSE Value(0)

\* x or 3
OrThree(x) == IF x = None \/ x = 0 THEN 3 ELSE x

\* one pass of the loop of fetch_old_curriculum (student_academic.py:93-107)
OldStandingRow(g, subjs) ==
    LET codes == g.SubjectCodes
        subject_units == [i \in 1..Len(codes) |-> OrThree(UnitsOf(subjs, codes[i]))]
        student_grades == [i \in 1..Len(g.Grades) |->
                             IF g.Grades[i] = None THEN 0 ELSE g.Grades[i]]
    IN  [ID |-> g.StudentID, Grades |-> student_grades,
         Units |-> SumSeq(subject_units),
         GPA |-> calculate_gpa(student_grades, subject_units)]

\* the table fetch_old_curriculum computes when no cache file exists;
\* sid = g["StudentID"] raises KeyError on a document without the key
OldStandingTable(gr, studs, subjs) ==
    LET Known(g) == g.StudentID \in studs
        recs == SelectSeq(gr, Known)
        rows == [i \in 1..Len(recs) |-> OldStandingRow(recs[i], subjs)]
    IN  IF \E i \in 1..Len(gr) : gr[i].StudentID = MISSING THEN Raise
        ELSE IF \E i \in 1..Len(rows) : rows[i].GPA.kind = "raise" THEN Raise
        ELSE [kind |-> "table", v |-> rows]

\* g.get("numericGrade", 0) or 0
OrZero(x) == IF x = None THEN 0 ELSE x

\* subj.get("units", 3) if subj else 3
NewUnitsOf(subjs, id) == UnitsOf(subjs, id)

\* the GPA of one row of fetch_new_curriculum (student_academic.py:133-137)
NewStandingGpa(g, subjs) ==
    calculate_gpa(<<OrZero(g.numericGrade)>>, <<NewUnitsOf(subjs, g.subjectId)>>)

\* the table fetch_new_curriculum computes when no cache file exists: one
\* row per student, GPA the mean of the student's row GPAs, kept as the sum
\* of the row GPAs (hundredths) and their number
NewStandingTable(gr, studs, subjs) ==
    LET Known(g) == g.studentId \in studs
        recs == SelectSeq(gr, Known)
        ids == {recs[i].studentId : i \in 1..Len(recs)}
        Mine(id) == LET Of(g) == g.studentId = id IN SelectSeq(recs, Of)
    IN  [kind |-> "table",
         v |-> [id \in ids |->
                  LET mine == Mine(id)
                      gpas == [i \in 1..Len(mine) |-> NewStandingGpa(mine[i], subjs).v]
                  IN  [ID |-> id,
                       Grades |-> [i \in 1..Len(mine) |-> OrZero(mine[i].numericGrade)],
                       GPA |-> [sum |-> SumSeq(gpas), n |-> Len(mine)]]]]

----------------------------------------------------------------------------
(* pages/performance_trend.py : GPA of the Performance Trend screen *)

\* f"{semester.get('Semester', '')} {semester.get('SchoolYear', '')}" of
\* semesters.get(id, {}): the two fields, 0 standing for the empty string
SemLabel(sems, id) ==
    IF id \in DOMAIN sems THEN <<sems[id].Semester, sems[id].SchoolYear>> ELSE <<0, 0>>

\* a <= b for two labels compared as strings
LabelLeq(a, b) == a[1] < b[1] \/ (a[1] = b[1] /\ a[2] <= b[2])

\* insert row r behind the rows of the sorted list s whose label is not larger
RECURSIVE InsertByLabel(_, _)
InsertByLabel(s, r) ==
    IF s = <<>> THEN <<r>>
    ELSE IF LabelLeq(Head(s).Semester, r.Semester)
         THEN <<Head(s)>> \o InsertByLabel(Tail(s), r)
         ELSE <<r>> \o s

\* df.sort_values("Semester")
RECURSIVE SortByLabel(_)
SortByLabel(s) ==
    IF s = <<>> THEN <<>>
    ELSE InsertByLabel(SortByLabel(SubSeq(s, 1, Len(s) - 1)), s[Len(s)])

\* sum(g["Grades"]) / len(g["Grades"]), rounded by df["GPA"].round(2);
\* sum() raises TypeError on None and on a string
TrendGpa(gs) ==
    IF gs = <<>> THEN NoneResult
    ELSE IF \E i \in 1..Len(gs) : ~IsNumber(gs[i]) THEN Raise
    ELSE Value(round2(SumSeq(gs), Len(gs)))

\* get_old_curriculum_gpa(student_id); sort_values on a frame built from no
\* records raises KeyError, the frame having no "Semester" column
get_old_curriculum_gpa(student_id, gr, sems) ==
    LET Mine(g) == g.StudentID = student_id
        student_grades == SelectSeq(gr, Mine)
        records == [i \in 1..Len(student_grades) |->
                      [Semester |-> SemLabel(sems, student_grades[i].SemesterID),
                       GPA |-> TrendGpa(student_grades[i].Grades)]]
    IN  IF \E i \in 1..Len(records) : records[i].GPA.kind = "raise" THEN Raise
        ELSE IF records = <<>> THEN Raise
        ELSE [kind |-> "table", v |-> SortByLabel(records)]

----------------------------------------------------------------------------
(* GPA screens applied to the record of one student *)

\* no subject document with that _id
NoDoc == -5

\* the sequences of at most n numbers of lo..hi in non-decreasing order
RECURSIVE NonDecreasing(_, _, _)
NonDecreasing(n, lo, hi) ==
    IF n = 0 THEN {<<>>}
    ELSE {<<>>} \cup UNION {{<<k>> \o t : t \in NonDecreasing(n - 1, k, hi)} : k \in lo..hi}

\* what a grade cell and the subject of an enrollment can hold
GpaGradeValues == <<None, INC, 70, 95>>
NewGradeValues == <<None, 70, 95>>
UnitStates == <<NoDoc, MISSING, None, 0, 1, 3>>
TermIds == {1, 2}

\* the k-th combination of a grade, a subject state and a term
EntryGrade(values, k) == values[((k - 1) % Len(values)) + 1]
EntryUnits(values, k) == UnitStates[(((k - 1) \div Len(values)) % Len(UnitStates)) + 1]
EntryTerm(values, k) == ((k - 1) \div (Len(values) * Len(UnitStates))) + 1

\* the subject documents of the enrollments e, keyed by _id
SubjectDocs(values, e) ==
    [c \in {i \in 1..Len(e) : EntryUnits(values, e[i]) # NoDoc} |->
        [Units |-> EntryUnits(values, e[c])]]

OneSemester == [t \in TermIds |-> [Semester |-> t, SchoolYear |-> 1]]

\* Old schema: one grades document of student 1 with parallel arrays
InitGpaOld ==
    \E e \in NonDecreasing(MaxSubjects, 1, Len(GpaGradeValues) * Len(UnitStates)) :
        /\ grades = << [StudentID |-> 1, SemesterID |-> 1,
                        SubjectCodes |-> [i \in 1..Len(e) |-> i],
                        Grades |-> [i \in 1..Len(e) |-> EntryGrade(GpaGradeValues, e[i])]] >>
        /\ subjects = SubjectDocs(GpaGradeValues, e)
        /\ students = {1}
        /\ semesters = OneSemester
        /\ NoNewCollections
        /\ curriculum_type = "Old Curriculum"

\* New schema: one newGrades document per enrollment of student 1
InitGpaNew ==
    \E e \in NonDecreasing(MaxSubjects, 1,
                           Len(NewGradeValues) * Len(UnitStates) * Cardinality(TermIds)) :
        /\ newGrades = [i \in 1..Len(e) |->
                          [studentId |-> 1, termId |-> EntryTerm(NewGradeValues, e[i]),
                           subjectId |-> i,
                           numericGrade |-> EntryGrade(NewGradeValues, e[i])]]
        /\ newSubjects = SubjectDocs(NewGradeValues, e)
        /\ newStudents = {1}
        /\ newSemesters = OneSemester
        /\ newSections = <<>>
        /\ newProfessors = {}
        /\ curriculums = <<>>
        /\ NoOldCollections
        /\ curriculum_type = "New Curriculum"

InitGpa ==
    /\ InitGpaOld \/ InitGpaNew
    /\ dist_grades = <<>>
    /\ cache = EmptyCache
    /\ out = NoOutput
    /\ NoSession
    /\ NoLoad

\* fetch_highest_old (highest.py:74-80): compute_gpa_old on one grades document
ComputeGpaOld(i) ==
    /\ curriculum_type = "Old Curriculum"
    /\ i \in DOMAIN grades
    /\ out' = [fn |-> "compute_gpa_old", arg |-> i,
               val |-> compute_gpa_old(grades[i], subjects)]
    /\ UNCHANGED <<inputs, cache>>

\* fetch_highest_new (highest.py:109-112): compute_gpa_new for a student and a term
ComputeGpaNew(sid, term) ==
    /\ curriculum_type = "New Curriculum"
    /\ out' = [fn |-> "compute_gpa_new", arg |-> <<sid, term>>,
               val |-> compute_gpa_new(sid, term, newGrades, newSubjects)]
    /\ UNCHANGED <<inputs, cache>>

\* fetch_old_curriculum(): the cached table if the cache file exists, else
\* the computed table, which is saved
FetchOldCurriculum ==
    /\ curriculum_type = "Old Curriculum"
    /\ LET cached == load_cache("old_curriculum.pkl")
           df == OldStandingTable(grades, students, subjects)
       IN  IF cached.exists
           THEN /\ out' = [fn |-> "fetch_old_curriculum", arg |-> 0, val |-> cached.data]
                /\ UNCHANGED cache
           ELSE /\ out' = [fn |-> "fetch_old_curriculum", arg |-> 0, val |-> df]
                /\ cache' = IF df.kind = "raise" THEN cache
                            ELSE save_cache(df, "old_curriculum.pkl")
    /\ UNCHANGED inputs

\* fetch_new_curriculum()
FetchNewCurriculum ==
    /\ curriculum_type = "New Curriculum"
    /\ LET cached == load_cache("new_curriculum.pkl")
           df == NewStandingTable(newGrades, newStudents, newSubjects)
       IN  IF cached.exists
           THEN /\ out' = [fn |-> "fetch_new_curriculum", arg |-> 0, val |-> cached.data]
                /\ UNCHANGED cache
           ELSE /\ out' = [fn |-> "fetch_new_curriculum", arg |-> 0, val |-> df]
                /\ cache' = save_cache(df, "new_curriculum.pkl")
    /\ UNCHANGED inputs

\* get_old_curriculum_gpa(student_id)
GetOldCurriculumGpa(student_id) ==
    /\ curriculum_type = "Old Curriculum"
    /\ out' = [fn |-> "get_old_curriculum_gpa", arg |-> student_id,
               val |-> get_old_curriculum_gpa(student_id, grades, semesters)]
    /\ UNCHANGED <<inputs, cache>>

StudentIds == {1, 2}

NextGpa ==
    \/ \E i \in DOMAIN grades : ComputeGpaOld(i)
    \/ \E sid \in StudentIds, term \in TermIds : ComputeGpaNew(sid, term)
    \/ FetchOldCurriculum
    \/ FetchNewCurriculum
    \/ \E sid \in StudentIds : GetOldCurriculumGpa(sid)

SpecGpa == InitGpa /\ [][NextGpa]_vars

----------------------------------------------------------------------------
(* Properties of the GPA screens *)

\* the enrollments a GPA is asked for, as (grade, stored units) pairs
OldScope(g) ==
    [i \in 1..ZipLen(g.SubjectCodes, g.Grades) |->
        [grade |-> g.Grades[i], units |-> UnitsOf(subjects, g.SubjectCodes[i])]]

NewScope(sid, term) ==
    LET InScope(g) == g.studentId = sid /\ g.termId = term
        rows == SelectSeq(newGrades, InScope)
    IN  [i \in 1..Len(rows) |->
            [grade |-> rows[i].numericGrade, units |-> UnitsOf(newSubjects, rows[i].subjectId)]]

TopScope == IF out.fn = "compute_gpa_old" THEN OldScope(grades[out.arg])
            ELSE NewScope(out.arg[1], out.arg[2])

HasNumber(e) == IsNumber(e.grade)

ScopePoints(sc) == SumSeq([i \in 1..Len(sc) |-> sc[i].grade * sc[i].units])
ScopeUnits(sc) == SumSeq([i \in 1..Len(sc) |-> sc[i].units])

TopGpaShown == out.fn \in {"compute_gpa_old", "compute_gpa_new"}

\* C5: the GPA of the Top Performers screen (compute_gpa_old,
\* compute_gpa_new) is the unit-weighted mean of the numeric grades only:
\* a returned number is sum(grade * units) / sum(units) over the enrollments
\* with a numeric grade, rounded to 2 decimals; enrollments whose grade is
\* None or a status token enter neither sum; None is returned only when
\* the numeric grades carry no units, and the computation fails only on a
\* numeric grade whose subject stores Units None.
C5_GpaIsWeightedMeanOfNumericGrades ==
    TopGpaShown =>
        LET numeric == SelectSeq(TopScope, HasNumber)
            nullUnits == \E i \in 1..Len(numeric) : numeric[i].units = None
        IN  /\ out.val.kind = "raise" <=> nullUnits
            /\ out.val.kind = "value" =>
                  /\ ScopeUnits(numeric) > 0
                  /\ out.val.v = round2(ScopePoints(numeric), ScopeUnits(numeric))
            /\ out.val.kind = "None" => ScopeUnits(numeric) = 0

\* C5 witness: grades 95, 70 and None with 3 units each give 82.50
C5_Witness ==
    /\ out.fn = "compute_gpa_old"
    /\ Len(grades[1].Grades) = 3
    /\ {grades[1].Grades[i] : i \in 1..3} = {95, 70, None}
    /\ \A c \in 1..3 : c \in DOMAIN subjects /\ subjects[c].Units = 3
    /\ out.val = Value(8250)

\* C6: every GPA computation returns an undefined result, distinct from the
\* number 0, when its scope holds no numeric grade.
C6_UndefinedWithoutNumericGrade ==
    /\ TopGpaShown =>
          (SelectSeq(TopScope, HasNumber) = <<>> => out.val.kind = "None")
    /\ (out.fn = "fetch_old_curriculum" /\ out.val.kind = "table") =>
          \A i \in 1..Len(out.val.v) :
              SelectSeq(OldScope(grades[i]), HasNumber) = <<>>
                  => out.val.v[i].GPA.kind = "None"

\* C7: the GPA of an Old schema grades document is the same on the Top
\* Performers, Academic Standing and Performance Trend screens.
C7_SameGpaOnEveryScreen ==
    /\ out.fn = "fetch_old_curriculum" =>
          /\ out.val.kind = "table"
          /\ \A i \in 1..Len(out.val.v) :
                out.val.v[i].GPA = compute_gpa_old(grades[i], subjects)
    /\ (out.fn = "get_old_curriculum_gpa" /\ out.arg = 1) =>
          /\ out.val.kind = "table"
          /\ \A i \in 1..Len(out.val.v) :
                out.val.v[i].GPA = compute_gpa_old(grades[i], subjects)

\* C8: a numeric grade always enters the GPA with a positive weight (the
\* unit count, 3 when absent): no subject document makes the computation
\* raise, and a scope with a numeric grade always has a GPA.
C8_WeightNeverZero ==
    TopGpaShown =>
        /\ out.val.kind # "raise"
        /\ SelectSeq(TopScope, HasNumber) # <<>> => out.val.kind = "value"

----------------------------------------------------------------------------
(* pages/comparison_with_class_average.py : class average and class rank *)

\* get_remark(student_grade, class_avg), class_avg being sum / n
get_remark(student_grade, sum, n) ==
    IF student_grade = None THEN "No grade available"
    ELSE IF student_grade * n >= sum + 5 * n THEN "Above class average"
    ELSE IF student_grade * n <= sum - 5 * n THEN "Below class average"
    ELSE "Slightly above average"

\* lines 77-95 and 139-157: the row built from a grade and its population
\* all_grades; np.mean raises on a list that holds a string
ComparisonRow(code, grade, all_grades) ==
    LET total_students == Len(all_grades)
        greater == Cardinality({i \in 1..total_students : all_grades[i] > grade})
        rank == IF grade = None THEN None
                ELSE Min(IF 1 + greater > 1 THEN 1 + greater ELSE 1, total_students)
    IN  IF \E i \in 1..total_students : ~IsNumber(all_grades[i]) THEN Raise
        ELSE [kind |-> "row", Code |-> code, Total |-> total_students,
              Grade |-> grade, AvgSum |-> SumSeq(all_grades), Rank |-> rank,
              Remark |-> get_remark(grade, SumSeq(all_grades), total_students),
              Population |-> all_grades]

\* the positions of a grades document
Positions(g) == [i \in 1..Len(g.SubjectCodes) |-> i]

\* lines 70-72 for one document gr: its grades of subject_id that are not None
DocGradesOf(gr, subject_id) ==
    LET idx == SelectSeq(Positions(gr),
                         LAMBDA i : gr.SubjectCodes[i] = subject_id /\ gr.Grades[i] # None)
    IN  [k \in 1..Len(idx) |-> gr.Grades[idx[k]]]

\* lines 68-72: all_grades of the Old schema
RECURSIVE OldPopulation(_, _)
OldPopulation(gr, subject_id) ==
    IF gr = <<>> THEN <<>>
    ELSE DocGradesOf(Head(gr), subject_id) \o OldPopulation(Tail(gr), subject_id)

\* lines 64-95 for one document g of the student: the rows of its subjects
OldDocRows(g, gr) ==
    LET shown == SelectSeq(Positions(g),
                           LAMBDA i : OldPopulation(gr, g.SubjectCodes[i]) # <<>>)
    IN  [k \in 1..Len(shown) |->
            ComparisonRow(g.SubjectCodes[shown[k]], g.Grades[shown[k]],
                          OldPopulation(gr, g.SubjectCodes[shown[k]]))]

RECURSIVE Flatten(_)
Flatten(ss) == IF ss = <<>> THEN <<>> ELSE Head(ss) \o Flatten(Tail(ss))

\* a table of rows, or the exception one of the rows raised
TableOf(rows) ==
    IF \E i \in 1..Len(rows) : rows[i].kind = "raise" THEN Raise
    ELSE [kind |-> "table", v |-> rows]

\* get_old_curriculum_comparison(student_id)
get_old_curriculum_comparison(student_id, gr) ==
    LET student_grades == SelectSeq(gr, LAMBDA g : g.StudentID = student_id)
    IN  TableOf(Flatten([d \in 1..Len(student_grades) |-> OldDocRows(student_grades[d], gr)]))

\* next((x for x in ...), None), found being the elements the generator
\* yields: the list of at most one element
First(found) == IF found = <<>> THEN <<>> ELSE <<Head(found)>>

InSeq(x, s) == \E i \in 1..Len(s) : s[i] = x

\* lines 123-134: all_grades of the New schema, one grade per classmate
NewPopulation(classmates, subject_id, gr) ==
    LET Graded(sid) == First(SelectSeq(gr, LAMBDA x : /\ x.studentId = sid
                                                      /\ x.subjectId = subject_id
                                                      /\ x.numericGrade # None))
        picked == Flatten([c \in 1..Len(classmates) |-> Graded(classmates[c])])
    IN  [k \in 1..Len(picked) |-> picked[k].numericGrade]

\* lines 112-157 for one document g of the student: no row without a
\* section, no row without a graded classmate
NewRecordRows(g, student_id, gr, sections) ==
    LET section == First(SelectSeq(sections, LAMBDA sec :
                                      /\ sec.subjectId = g.subjectId
                                      /\ InSeq(student_id, sec.studentIds)))
    IN  IF section = <<>> THEN <<>>
        ELSE LET all_grades == NewPopulation(section[1].studentIds, g.subjectId, gr)
             IN  IF all_grades = <<>> THEN <<>>
                 ELSE <<ComparisonRow(g.subjectId, g.numericGrade, all_grades)>>

\* get_new_curriculum_comparison(student_id)
get_new_curriculum_comparison(student_id, gr, sections) ==
    LET student_grades == SelectSeq(gr, LAMBDA g : g.studentId = student_id)
    IN  TableOf(Flatten([d \in 1..Len(student_grades) |->
                            NewRecordRows(student_grades[d], student_id, gr, sections)]))

----------------------------------------------------------------------------
(* Class comparison applied to bounded collections *)

RankGradeValues == {None, INC, 70, 88}
RankNumericGrades == {None, 70, 88}
SubjectIds == {1, 2}

\* an enrollment: a student taking a subject in a term, with a grade cell
Enrollments(values) ==
    [student : StudentIds, term : TermIds, subject : SubjectIds, grade : values]

EnrollmentLists(values) == UNION {[1..n -> Enrollments(values)] : n \in 0..MaxEnroll}

\* the (student, term) pairs in collection order
DocKeys == <<<<1, 1>>, <<1, 2>>, <<2, 1>>, <<2, 2>>>>

\* Old schema: one grades document per student and semester, holding the
\* enrollments of that student and semester as parallel arrays
OldDocsOf(E) ==
    LET Of(k) == SelectSeq(E, LAMBDA e : e.student = DocKeys[k][1] /\ e.term = DocKeys[k][2])
        used == SelectSeq([k \in 1..Len(DocKeys) |-> k], LAMBDA k : Of(k) # <<>>)
    IN  [d \in 1..Len(used) |->
            [StudentID |-> DocKeys[used[d]][1], SemesterID |-> DocKeys[used[d]][2],
             SubjectCodes |-> [i \in 1..Len(Of(used[d])) |-> Of(used[d])[i].subject],
             Grades |-> [i \in 1..Len(Of(used[d])) |-> Of(used[d])[i].grade]]]

\* New schema: one newGrades document per enrollment
NewDocsOf(E) ==
    [i \in 1..Len(E) |->
        [studentId |-> E[i].student, termId |-> E[i].term,
         subjectId |-> E[i].subject, numericGrade |-> E[i].grade]]

\* the newSections collection: no section, or one section of a subject
SectionLists ==
    {<<>>} \cup {<< [subjectId |-> c, studentIds |-> ids] >> :
                    c \in SubjectIds, ids \in {<<1>>, <<2>>, <<1, 2>>}}

NoSubjectDocs ==
    /\ subjects = EmptyDict
    /\ newSubjects = EmptyDict

InitRankOld ==
    /\ \E E \in EnrollmentLists(RankGradeValues) : grades = OldDocsOf(E)
    /\ students = StudentIds
    /\ semesters = OneSemester
    /\ newGrades = <<>>
    /\ newSections = <<>>
    /\ newProfessors = {}
    /\ curriculums = <<>>
    /\ newStudents = {}
    /\ newSemesters = EmptyDict
    /\ curriculum_type = "Old Curriculum"

InitRankNew ==
    /\ \E E \in EnrollmentLists(RankNumericGrades) : newGrades = NewDocsOf(E)
    /\ newSections \in SectionLists
    /\ newProfessors = {}
    /\ curriculums = <<>>
    /\ newStudents = StudentIds
    /\ newSemesters = OneSemester
    /\ grades = <<>>
    /\ students = {}
    /\ semesters = EmptyDict
    /\ curriculum_type = "New Curriculum"

InitRank ==
    /\ InitRankOld \/ InitRankNew
    /\ NoSubjectDocs
    /\ dist_grades = <<>>
    /\ cache = EmptyCache
    /\ out = NoOutput
    /\ NoSession
    /\ NoLoad

\* comparison_with_class_average(), lines 294-305, Old Curriculum
GetOldCurriculumComparison(student_id) ==
    /\ curriculum_type = "Old Curriculum"
    /\ student_id \in students
    /\ out' = [fn |-> "get_old_curriculum_comparison", arg |-> student_id,
               val |-> get_old_curriculum_comparison(student_id, grades)]
    /\ UNCHANGED <<inputs, cache>>

\* comparison_with_class_average(), lines 294-307, New Curriculum
GetNewCurriculumComparison(student_id) ==
    /\ curriculum_type = "New Curriculum"
    /\ student_id \in newStudents
    /\ out' = [fn |-> "get_new_curriculum_comparison", arg |-> student_id,
               val |-> get_new_curriculum_comparison(student_id, newGrades, newSections)]
    /\ UNCHANGED <<inputs, cache>>

NextRank ==
    \/ \E sid \in StudentIds : GetOldCurriculumComparison(sid)
    \/ \E sid \in StudentIds : GetNewCurriculumComparison(sid)

SpecRank == InitRank /\ [][NextRank]_vars

ComparisonShown ==
    /\ out.fn \in {"get_old_curriculum_comparison", "get_new_curriculum_comparison"}
    /\ out.val.kind = "table"

\* the comparison table of student sid under the selected curriculum
ComparisonOf(sid) ==
    IF curriculum_type = "Old Curriculum"
    THEN get_old_curriculum_comparison(sid, grades)
    ELSE get_new_curriculum_comparison(sid, newGrades, newSections)

\* the ranked rows of every student's comparison table
RankedRows ==
    UNION {{ComparisonOf(sid).v[i] : i \in 1..Len(ComparisonOf(sid).v)} :
              sid \in {s \in StudentIds : ComparisonOf(s).kind = "table"}}

\* C2: within one population the class rank is monotone in the grade:
\* a greater grade has a smaller rank, equal grades have equal ranks, and
\* every rank lies in 1..N, N the number of numeric grades of the population.
C2_RankMonotone ==
    ComparisonShown =>
        \A i \in 1..Len(out.val.v) : \A b \in RankedRows :
            LET a == out.val.v[i] IN
            (a.Rank # None /\ b.Rank # None /\ a.Code = b.Code /\ a.Population = b.Population)
                => /\ a.Grade > b.Grade => a.Rank < b.Rank
                   /\ a.Grade = b.Grade => a.Rank = b.Rank
                   /\ a.Rank >= 1 /\ a.Rank <= a.Total

StrictlyGreater(row) ==
    Cardinality({k \in 1..Len(row.Population) : row.Population[k] > row.Grade})

\* C3: the class rank is competition ranking: it equals 1 + the number of
\* strictly greater numeric grades of the population.
C3_RankIsOnePlusGreater ==
    ComparisonShown =>
        \A i \in 1..Len(out.val.v) :
            out.val.v[i].Rank # None
                => out.val.v[i].Rank = 1 + StrictlyGreater(out.val.v[i])

\* the enrollments of the shown student, with their term
ShownEnrollments ==
    IF curriculum_type = "Old Curriculum"
    THEN UNION {{[subject |-> grades[d].SubjectCodes[i], term |-> grades[d].SemesterID,
                  grade |-> grades[d].Grades[i]] : i \in 1..Len(grades[d].SubjectCodes)} :
                   d \in {x \in 1..Len(grades) : grades[x].StudentID = out.arg}}
    ELSE {[subject |-> newGrades[i].subjectId, term |-> newGrades[i].termId,
           grade |-> newGrades[i].numericGrade] :
              i \in {x \in 1..Len(newGrades) : newGrades[x].studentId = out.arg}}

\* the number of numeric grades recorded for a subject in a term
TermTakers(subject, term) ==
    IF curriculum_type = "Old Curriculum"
    THEN SumSeq([d \in 1..Len(grades) |->
                    IF grades[d].SemesterID = term
                    THEN Cardinality({i \in 1..Len(grades[d].SubjectCodes) :
                            grades[d].SubjectCodes[i] = subject /\ IsNumber(grades[d].Grades[i])})
                    ELSE 0])
    ELSE Cardinality({i \in 1..Len(newGrades) :
            /\ newGrades[i].subjectId = subject
            /\ newGrades[i].termId = term
            /\ IsNumber(newGrades[i].numericGrade)})

SectionOf(sid, subject) ==
    {k \in 1..Len(newSections) :
        newSections[k].subjectId = subject /\ InSeq(sid, newSections[k].studentIds)}

\* C4: a graded enrollment of the student has a comparison row also when no
\* section holds the student (the population then being all takers), and a
\* population that is not a section's holds the grades of one term only.
C4_SectionElseAllTakers ==
    ComparisonShown =>
        /\ \A e \in ShownEnrollments :
              IsNumber(e.grade) => \E i \in 1..Len(out.val.v) : out.val.v[i].Code = e.subject
        /\ \A i \in 1..Len(out.val.v) :
              SectionOf(out.arg, out.val.v[i].Code) = {}
                  => \E t \in TermIds : out.val.v[i].Total = TermTakers(out.val.v[i].Code, t)

----------------------------------------------------------------------------
(* pages/passed_vs_failed_summary.py : Passed vs Failed summary of a student *)

\* the enrollments of a grades document as (code, semester, grade) records
DocEntries(g) ==
    [i \in 1..ZipLen(g.SubjectCodes, g.Grades) |->
        [code |-> g.SubjectCodes[i], sem |-> g.SemesterID, grade |-> g.Grades[i]]]

\* the rows of the summary table; the percentages divide by total_required
Summary(passed, failed, total_taken, total_required) ==
    IF total_required = 0 THEN Raise
    ELSE [kind |-> "summary", Passed |-> passed, Failed |-> failed,
          NotYet |-> total_required - total_taken, Total |-> total_required]

\* get_old_curriculum_summary(student_id); g["Grades"][idx] raises IndexError
\* when Grades is shorter than SubjectCodes, s[1] >= 75 raises TypeError on
\* a string grade
get_old_curriculum_summary(student_id, gr, subjs) ==
    LET student_grades == SelectSeq(gr, LAMBDA g : g.StudentID = student_id)
        cells == Flatten([d \in 1..Len(student_grades) |-> DocEntries(student_grades[d])])
        taken == SelectSeq(cells, LAMBDA s : s.grade # None)
        passed == SelectSeq(taken, LAMBDA s : s.grade >= 75)
        failed == SelectSeq(taken, LAMBDA s : s.grade < 75)
    IN  IF \E d \in 1..Len(student_grades) :
               Len(student_grades[d].Grades) < Len(student_grades[d].SubjectCodes)
        THEN Raise
        ELSE IF \E i \in 1..Len(taken) : ~IsNumber(taken[i].grade) THEN Raise
        ELSE Summary(Len(passed), Len(failed), Len(taken), Cardinality(DOMAIN subjs))

\* get_new_curriculum_summary(student_id): taken is a dict keyed by subject,
\* the last graded document of a subject replacing the earlier ones
get_new_curriculum_summary(student_id, gr, subjs) ==
    LET graded == SelectSeq(gr, LAMBDA g : g.studentId = student_id /\ g.numericGrade # None)
        keys == {graded[i].subjectId : i \in 1..Len(graded)}
        Last(c) == LET mine == SelectSeq(graded, LAMBDA g : g.subjectId = c)
                   IN  mine[Len(mine)].numericGrade
        passed == {c \in keys : Last(c) >= 75}
        failed == {c \in keys : Last(c) < 75}
    IN  Summary(Cardinality(passed), Cardinality(failed), Cardinality(keys),
                Cardinality(DOMAIN subjs))

----------------------------------------------------------------------------
(* pages/pass_failed.py : subject Pass/Fail distribution *)

\* (grade or 0) >= 75
is_pass(grade) == (IF grade = None THEN 0 ELSE grade) >= 75

\* lines 72-77: the rows grouped by their key, with Pass_Count and
\* Fail_Count; a string grade raises TypeError in is_pass
PassFailTable(rows) ==
    IF \E i \in 1..Len(rows) : rows[i].grade # None /\ ~IsNumber(rows[i].grade) THEN Raise
    ELSE [kind |-> "table",
          v |-> [k \in {rows[i].key : i \in 1..Len(rows)} |->
                  [Pass_Count |-> Cardinality({i \in 1..Len(rows) :
                                      rows[i].key = k /\ is_pass(rows[i].grade)}),
                   Fail_Count |-> Cardinality({i \in 1..Len(rows) :
                                      rows[i].key = k /\ ~is_pass(rows[i].grade)})]]]

\* the table fetch_pass_fail_old computes when no cache file exists
OldPassFailTable(gr, sems) ==
    LET cells == Flatten([d \in 1..Len(gr) |-> DocEntries(gr[d])])
    IN  PassFailTable([i \in 1..Len(cells) |->
            [key |-> <<cells[i].code, SemLabel(sems, cells[i].sem)>>,
             grade |-> cells[i].grade]])

\* subject.get("subjectCode", "Unknown") of subjects.get(id, {}), 0 standing
\* for "Unknown"
SubjectCodeOf(subjs, id) == IF id \in DOMAIN subjs THEN subjs[id].Code ELSE 0

\* the table fetch_pass_fail_new computes when no cache file exists
NewPassFailTable(gr, subjs, sems) ==
    PassFailTable([i \in 1..Len(gr) |->
        [key |-> <<SubjectCodeOf(subjs, gr[i].subjectId), SemLabel(sems, gr[i].termId)>>,
         grade |-> gr[i].numericGrade]])

----------------------------------------------------------------------------
(* pages/grade_analytics.py : Passed vs Failed chart of a subject *)

\* lines 247-251: Passed if pd.notna(x) and x >= 75, else Failed; a cell
\* that is not a number is NaN after pd.to_numeric(errors='coerce')
PassFailChart(numeric_grades) ==
    [kind |-> "chart",
     pass_count |-> Cardinality({i \in 1..Len(numeric_grades) :
                        IsNumber(numeric_grades[i]) /\ numeric_grades[i] >= 75}),
     fail_count |-> Cardinality({i \in 1..Len(numeric_grades) :
                        ~(IsNumber(numeric_grades[i]) /\ numeric_grades[i] >= 75)})]

\* no chart: the dashboard returns after "No grade records found"
NoChart == [kind |-> "warning", pass_count |-> 0, fail_count |-> 0]

\* faculty_dashboard_old (lines 194-215): one row per grades document that
\* lists the subject, with the grade at the subject's first position
OldFacultyChart(code, gr) ==
    LET docs == SelectSeq(gr, LAMBDA g : InSeq(code, g.SubjectCodes))
        Idx(g) == CHOOSE i \in 1..Len(g.SubjectCodes) :
                      /\ g.SubjectCodes[i] = code
                      /\ \A j \in 1..(i - 1) : g.SubjectCodes[j] # code
        subject_grades == [d \in 1..Len(docs) |->
                              IF Len(docs[d].Grades) >= Idx(docs[d])
                              THEN docs[d].Grades[Idx(docs[d])] ELSE None]
    IN  IF subject_grades = <<>> THEN NoChart ELSE PassFailChart(subject_grades)

\* run_new_teacher_panel (lines 146-169): the newGrades documents of the
\* subject whose numericGrade is not None
NewFacultyChart(subj_id, gr) ==
    LET rows == SelectSeq(gr, LAMBDA g : g.subjectId = subj_id /\ g.numericGrade # None)
        subject_grades == [i \in 1..Len(rows) |-> rows[i].numericGrade]
    IN  IF subject_grades = <<>> THEN NoChart ELSE PassFailChart(subject_grades)

----------------------------------------------------------------------------
(* Pass/fail counts applied to bounded collections *)

PassFailGradeValues == {None, INC, 70, 88}
PassFailNumericGrades == {None, 70, 88}

\* the subjects collection keyed by _id: no document, or documents of the
\* first subjects; Code stands for the code and the name of the document
SubjectCatalogs ==
    {[c \in S |-> [Code |-> c, Units |-> 3]] : S \in {{}, {1}, SubjectIds}}

InitPassFailOld ==
    /\ \E E \in EnrollmentLists(PassFailGradeValues) : grades = OldDocsOf(E)
    /\ subjects \in SubjectCatalogs
    /\ students = StudentIds
    /\ semesters = OneSemester
    /\ NoNewCollections
    /\ curriculum_type = "Old Curriculum"

InitPassFailNew ==
    /\ \E E \in EnrollmentLists(PassFailNumericGrades) : newGrades = NewDocsOf(E)
    /\ newSubjects \in SubjectCatalogs
    /\ newStudents = StudentIds
    /\ newSemesters = OneSemester
    /\ newSections = <<>>
    /\ newProfessors = {}
    /\ curriculums = <<>>
    /\ NoOldCollections
    /\ curriculum_type = "New Curriculum"

InitPassFail ==
    /\ InitPassFailOld \/ InitPassFailNew
    /\ dist_grades = <<>>
    /\ cache = EmptyCache
    /\ out = NoOutput
    /\ NoSession
    /\ NoLoad

\* passed_vs_failed_summary(), Old Curriculum
GetOldCurriculumSummary(student_id) ==
    /\ curriculum_type = "Old Curriculum"
    /\ student_id \in students
    /\ out' = [fn |-> "get_old_curriculum_summary", arg |-> student_id,
               val |-> get_old_curriculum_summary(student_id, grades, subjects)]
    /\ UNCHANGED <<inputs, cache>>

\* passed_vs_failed_summary(), New Curriculum
GetNewCurriculumSummary(student_id) ==
    /\ curriculum_type = "New Curriculum"
    /\ student_id \in newStudents
    /\ out' = [fn |-> "get_new_curriculum_summary", arg |-> student_id,
               val |-> get_new_curriculum_summary(student_id, newGrades, newSubjects)]
    /\ UNCHANGED <<inputs, cache>>

\* fetch_pass_fail_old()
FetchPassFailOld ==
    /\ curriculum_type = "Old Curriculum"
    /\ LET cached == load_cache("old_pass_fail.pkl")
           df == OldPassFailTable(grades, semesters)
       IN  IF cached.exists
           THEN /\ out' = [fn |-> "fetch_pass_fail_old", arg |-> 0, val |-> cached.data]
                /\ UNCHANGED cache
           ELSE /\ out' = [fn |-> "fetch_pass_fail_old", arg |-> 0, val |-> df]
                /\ cache' = IF df.kind = "raise" THEN cache
                            ELSE save_cache(df, "old_pass_fail.pkl")
    /\ UNCHANGED inputs

\* fetch_pass_fail_new()
FetchPassFailNew ==
    /\ curriculum_type = "New Curriculum"
    /\ LET cached == load_cache("new_pass_fail.pkl")
           df == NewPassFailTable(newGrades, newSubjects, newSemesters)
       IN  IF cached.exists
           THEN /\ out' = [fn |-> "fetch_pass_fail_new", arg |-> 0, val |-> cached.data]
                /\ UNCHANGED cache
           ELSE /\ out' = [fn |-> "fetch_pass_fail_new", arg |-> 0, val |-> df]
                /\ cache' = save_cache(df, "new_pass_fail.pkl")
    /\ UNCHANGED inputs

\* faculty_dashboard_old() for a subject of the selected teacher
FacultyDashboardOld(selected_subject_code) ==
    /\ curriculum_type = "Old Curriculum"
    /\ selected_subject_code \in DOMAIN subjects
    /\ out' = [fn |-> "faculty_dashboard_old", arg |-> selected_subject_code,
               val |-> OldFacultyChart(selected_subject_code, grades)]
    /\ UNCHANGED <<inputs, cache>>

\* run_new_teacher_panel() for a subject of the selected teacher
RunNewTeacherPanel(selected_subject_id) ==
    /\ curriculum_type = "New Curriculum"
    /\ selected_subject_id \in DOMAIN newSubjects
    /\ out' = [fn |-> "run_new_teacher_panel", arg |-> selected_subject_id,
               val |-> NewFacultyChart(selected_subject_id, newGrades)]
    /\ UNCHANGED <<inputs, cache>>

NextPassFail ==
    \/ \E sid \in StudentIds : GetOldCurriculumSummary(sid)
    \/ \E sid \in StudentIds : GetNewCurriculumSummary(sid)
    \/ FetchPassFailOld
    \/ FetchPassFailNew
    \/ \E c \in SubjectIds : FacultyDashboardOld(c)
    \/ \E c \in SubjectIds : RunNewTeacherPanel(c)

SpecPassFail == InitPassFail /\ [][NextPassFail]_vars

\* the enrollments of the selected curriculum as (student, code, sem, grade)
AllEnrollments ==
    IF curriculum_type = "Old Curriculum"
    THEN Flatten([d \in 1..Len(grades) |->
            [i \in 1..Len(grades[d].SubjectCodes) |->
                [student |-> grades[d].StudentID, code |-> grades[d].SubjectCodes[i],
                 sem |-> grades[d].SemesterID, grade |-> grades[d].Grades[i]]]])
    ELSE [i \in 1..Len(newGrades) |->
            [student |-> newGrades[i].studentId, code |-> newGrades[i].subjectId,
             sem |-> newGrades[i].termId, grade |-> newGrades[i].numericGrade]]

SummaryShown ==
    out.fn \in {"get_old_curriculum_summary", "get_new_curriculum_summary"}

\* C9: for every student and required-subject set the summary is produced
\* and its counts reconcile: Pass + Fail + NotYetTaken + Incomplete equals
\* TotalRequired, the summary reporting no Incomplete count of its own.
C9_SummaryReconciles ==
    SummaryShown =>
        /\ out.val.kind = "summary"
        /\ out.val.Passed + out.val.Failed + out.val.NotYet = out.val.Total
        /\ out.val.Total = Cardinality(DOMAIN (IF curriculum_type = "Old Curriculum"
                                               THEN subjects ELSE newSubjects))

\* C29: in the Passed vs Failed summary every count is non-negative and at
\* most TotalRequired; in particular Not Yet Taken is never negative.
C29_CountsWithinTotal ==
    (SummaryShown /\ out.val.kind = "summary") =>
        /\ out.val.Passed \in 0..out.val.Total
        /\ out.val.Failed \in 0..out.val.Total
        /\ out.val.NotYet \in 0..out.val.Total

\* the number of numeric grades among the enrollments es
NumericCount(es) == Len(SelectSeq(es, LAMBDA e : IsNumber(e.grade)))

\* the group of the subject Pass/Fail table an enrollment is counted in
GroupOf(e) ==
    IF curriculum_type = "Old Curriculum"
    THEN <<e.code, SemLabel(semesters, e.sem)>>
    ELSE <<SubjectCodeOf(newSubjects, e.code), SemLabel(newSemesters, e.sem)>>

\* C10: in every pass/fail count a null, in-progress or dropped grade is
\* counted neither as Pass nor as Fail: the counts are produced, and the
\* Pass and Fail counts of a group add up to the number of its numeric
\* grades.
C10_OnlyNumericGradesCounted ==
    /\ out.fn \in {"fetch_pass_fail_old", "fetch_pass_fail_new"} =>
        /\ out.val.kind = "table"
        /\ \A k \in DOMAIN out.val.v :
              out.val.v[k].Pass_Count + out.val.v[k].Fail_Count =
                  NumericCount(SelectSeq(AllEnrollments, LAMBDA e : GroupOf(e) = k))
    /\ (out.fn \in {"faculty_dashboard_old", "run_new_teacher_panel"}
            /\ out.val.kind = "chart") =>
          out.val.pass_count + out.val.fail_count =
              NumericCount(SelectSeq(AllEnrollments, LAMBDA e : e.code = out.arg))

----------------------------------------------------------------------------
(* pages/subject_difficulty.py : subject difficulty heatmap of a professor *)

\* round(num / den * 100, 1) in tenths of a percent, for den > 0, a float
\* exactly between two results going to the even one
round1(num, den) ==
    LET q == (num * 1000) \div den
        r == (num * 1000) % den
    IN  IF 2 * r < den THEN q
        ELSE IF 2 * r > den THEN q + 1
        ELSE IF q % 2 = 0 THEN q ELSE q + 1

\* classify_difficulty(row), the rates in tenths of a percent
classify_difficulty(fail_rate, dropout_rate) ==
    IF fail_rate >= 200 \/ dropout_rate >= 50 THEN "High"
    ELSE IF fail_rate >= 100 \/ dropout_rate >= 20 THEN "Medium"
    ELSE "Low"

\* lines 67-88: Status.value_counts(normalize=True) of every subject group,
\* times 100 and rounded to one decimal, and the label of the group
DifficultySummary(rows) ==
    LET Group(k) == SelectSeq(rows, LAMBDA r : r.key = k)
        Rate(k, status) ==
            round1(Len(SelectSeq(Group(k), LAMBDA r : r.Status = status)), Len(Group(k)))
    IN  [kind |-> "table",
         v |-> [k \in {rows[i].key : i \in 1..Len(rows)} |->
                 [FailRate |-> Rate(k, "Fail"), DropoutRate |-> Rate(k, "Dropout"),
                  Level |-> classify_difficulty(Rate(k, "Fail"), Rate(k, "Dropout"))]]]

\* subj.get("Teacher") of subjects.get(subj_code, {})
TeacherOf(subjs, code) == IF code \in DOMAIN subjs THEN subjs[code].Teacher ELSE None

\* lines 54-59: the status of an Old enrollment
OldStatus(grade) ==
    IF grade = None THEN "Dropout"
    ELSE IF IsNumber(grade) /\ grade < 75 THEN "Fail"
    ELSE "Pass"

\* get_subject_difficulty_old(selected_prof)
get_subject_difficulty_old(selected_prof, gr, subjs) ==
    LET Cells(g) ==
            [idx \in 1..Len(g.SubjectCodes) |->
                [key |-> g.SubjectCodes[idx],
                 teacher |-> IF idx <= Len(g.Teachers) THEN g.Teachers[idx]
                             ELSE TeacherOf(subjs, g.SubjectCodes[idx]),
                 Status |-> OldStatus(IF idx <= Len(g.Grades) THEN g.Grades[idx] ELSE None)]]
        cells == Flatten([d \in 1..Len(gr) |-> Cells(gr[d])])
    IN  DifficultySummary(SelectSeq(cells, LAMBDA c : c.teacher = selected_prof))

\* lines 111-116: the status of a New enrollment; "Dropout" stands for every
\* status string whose lower case is "dropout"
NewStatus(g) ==
    IF g.status = "Dropout" THEN "Dropout"
    ELSE IF g.numericGrade # None /\ IsNumber(g.numericGrade) /\ g.numericGrade < 75
         THEN "Fail"
    ELSE "Pass"

\* get_subject_difficulty_new(professor_id)
get_subject_difficulty_new(professor_id, gr, subjs, profs) ==
    IF professor_id \notin profs THEN DifficultySummary(<<>>)
    ELSE LET mine == SelectSeq(gr, LAMBDA g :
                        g.subjectId \in DOMAIN subjs
                        /\ subjs[g.subjectId].professorId = professor_id)
         IN  DifficultySummary([i \in 1..Len(mine) |->
                 [key |-> subjs[mine[i].subjectId].Code, Status |-> NewStatus(mine[i])]])

\* cache_key = f"subject_difficulty_{curriculum}_{selected_prof}.pkl"
cache_key(curriculum, prof) ==
    IF curriculum = "Old Curriculum"
    THEN (IF prof = 1 THEN "subject_difficulty_Old Curriculum_1.pkl"
          ELSE "subject_difficulty_Old Curriculum_2.pkl")
    ELSE (IF prof = 1 THEN "subject_difficulty_New Curriculum_1.pkl"
          ELSE "subject_difficulty_New Curriculum_2.pkl")

----------------------------------------------------------------------------
(* pages/student_subject_difficulty.py : difficulty ratings of a student *)

\* grade_distribution.get(key, 0)
DistGet(grade_distribution, key) ==
    IF key \in DOMAIN grade_distribution THEN grade_distribution[key] ELSE 0

\* get_difficulty_level(grade_distribution), the shares in percent
get_difficulty_level(grade_distribution) ==
    LET fail_rate == DistGet(grade_distribution, "< 60 (%)")
                     + DistGet(grade_distribution, "60-69 (%)")
    IN  IF fail_rate > 20 THEN "High"
        ELSE IF fail_rate > 10 THEN "Medium"
        ELSE "Low"

\* lines 71-77: the distribution given to every Old subject
OldDist == [k \in {"90-100 (%)", "80-89 (%)", "70-79 (%)", "60-69 (%)", "< 60 (%)"} |->
              CASE k = "90-100 (%)" -> 20 [] k = "80-89 (%)" -> 25
                [] k = "70-79 (%)" -> 30 [] k = "60-69 (%)" -> 15 [] OTHER -> 10]

\* lines 117-123: the distribution given to every New subject
NewDist == [k \in {"90-100 (%)", "80-89 (%)", "70-79 (%)", "60-69 (%)", "< 60 (%)"} |->
              CASE k = "90-100 (%)" -> 25 [] k = "80-89 (%)" -> 30
                [] k = "70-79 (%)" -> 25 [] k = "60-69 (%)" -> 10 [] OTHER -> 10]

\* a record of the ratings table: the course, the enrollment count, the
\* student's grade, the distribution and its label
DifficultyRecord(code, total_students, grade, dist) ==
    [Code |-> code, TotalStudents |-> total_students, Grade |-> grade,
     Dist |-> dist, Level |-> get_difficulty_level(dist)]

\* get_old_curriculum_difficulty(student_id); g["Grades"][idx] raises
\* IndexError when Grades is shorter than SubjectCodes
get_old_curriculum_difficulty(student_id, gr) ==
    LET student_grades == SelectSeq(gr, LAMBDA g : g.StudentID = student_id)
        Total(code) == Len(SelectSeq(gr, LAMBDA g : InSeq(code, g.SubjectCodes)))
        Records(g) == [idx \in 1..Len(g.SubjectCodes) |->
                          DifficultyRecord(g.SubjectCodes[idx], Total(g.SubjectCodes[idx]),
                                           g.Grades[idx], OldDist)]
    IN  IF \E d \in 1..Len(student_grades) :
               Len(student_grades[d].Grades) < Len(student_grades[d].SubjectCodes)
        THEN Raise
        ELSE [kind |-> "table",
              v |-> Flatten([d \in 1..Len(student_grades) |-> Records(student_grades[d])])]

\* get_new_curriculum_difficulty(student_id); 0 stands for the code ""
get_new_curriculum_difficulty(student_id, gr, subjs, sections) ==
    LET student_grades == SelectSeq(gr, LAMBDA g : g.studentId = student_id)
        Total(subject_id) ==
            LET secs == SelectSeq(sections, LAMBDA sec : sec.subjectId = subject_id)
            IN  IF secs # <<>> THEN Len(secs[1].studentIds)
                ELSE Len(SelectSeq(gr, LAMBDA g : g.subjectId = subject_id))
    IN  [kind |-> "table",
         v |-> [i \in 1..Len(student_grades) |->
                  DifficultyRecord(SubjectCodeOf(subjs, student_grades[i].subjectId),
                                   Total(student_grades[i].subjectId),
                                   student_grades[i].numericGrade, NewDist)]]

----------------------------------------------------------------------------
(* Subject difficulty applied to bounded collections *)

DifficultyGradeValues == {None, INC, DROPPED, 70, 88}
DifficultyNumericGrades == {None, 70, 88}
StatusValues == {"Enrolled", "Dropout"}
ProfessorIds == {1, 2}

\* the enrollments of one term, at most MaxEnroll of them
TermEnrollmentLists(values) ==
    UNION {[1..n -> {e \in Enrollments(values) : e.term = 1}] : n \in 0..MaxEnroll}

\* the subjects keyed by _id with the professor of each: subject 1 is
\* taught by professor 1, subject 2 by either professor
TeacherCatalogs ==
    {[c \in SubjectIds |-> [Code |-> c, Units |-> 3, Teacher |-> T[c], professorId |-> T[c]]] :
        T \in {<<1, 1>>, <<1, 2>>}}

\* the grades documents with their Teachers array, which names the teacher
\* of every subject or is empty
WithTeachers(docs, subjs, listed) ==
    [d \in 1..Len(docs) |->
        [StudentID |-> docs[d].StudentID, SemesterID |-> docs[d].SemesterID,
         SubjectCodes |-> docs[d].SubjectCodes, Grades |-> docs[d].Grades,
         Teachers |-> IF listed
                      THEN [i \in 1..Len(docs[d].SubjectCodes) |->
                               subjs[docs[d].SubjectCodes[i]].Teacher]
                      ELSE <<>>]]

\* the newGrades documents with their status field
WithStatus(docs, st) ==
    [i \in 1..Len(docs) |->
        [studentId |-> docs[i].studentId, termId |-> docs[i].termId,
         subjectId |-> docs[i].subjectId, numericGrade |-> docs[i].numericGrade,
         status |-> st[i]]]

InitDifficultyOld ==
    /\ subjects \in TeacherCatalogs
    /\ \E E \in TermEnrollmentLists(DifficultyGradeValues) : \E listed \in BOOLEAN :
          grades = WithTeachers(OldDocsOf(E), subjects, listed)
    /\ students = StudentIds
    /\ semesters = OneSemester
    /\ NoNewCollections
    /\ curriculum_type = "Old Curriculum"

InitDifficultyNew ==
    /\ newSubjects \in TeacherCatalogs
    /\ \E E \in TermEnrollmentLists(DifficultyNumericGrades) :
          \E st \in [1..Len(E) -> StatusValues] :
              newGrades = WithStatus(NewDocsOf(E), st)
    /\ newProfessors \in {{1}, ProfessorIds}
    /\ newSections \in {<<>>, << [subjectId |-> 1, studentIds |-> <<1, 2>>] >>}
    /\ newStudents = StudentIds
    /\ newSemesters = OneSemester
    /\ curriculums = <<>>
    /\ NoOldCollections
    /\ curriculum_type = "New Curriculum"

InitDifficulty ==
    /\ InitDifficultyOld \/ InitDifficultyNew
    /\ dist_grades = <<>>
    /\ cache = EmptyCache
    /\ out = NoOutput
    /\ NoSession
    /\ NoLoad

\* display_subject_difficulty(), Old Curriculum
DisplaySubjectDifficultyOld(selected_prof) ==
    /\ curriculum_type = "Old Curriculum"
    /\ LET key == cache_key(curriculum_type, selected_prof)
           df == get_subject_difficulty_old(selected_prof, grades, subjects)
       IN  IF load_cache(key).exists
           THEN /\ out' = [fn |-> "get_subject_difficulty_old", arg |-> selected_prof,
                           val |-> load_cache(key).data]
                /\ UNCHANGED cache
           ELSE /\ out' = [fn |-> "get_subject_difficulty_old", arg |-> selected_prof,
                           val |-> df]
                /\ cache' = save_cache(df, key)
    /\ UNCHANGED inputs

\* display_subject_difficulty(), New Curriculum
DisplaySubjectDifficultyNew(professor_id) ==
    /\ curriculum_type = "New Curriculum"
    /\ LET key == cache_key(curriculum_type, professor_id)
           df == get_subject_difficulty_new(professor_id, newGrades, newSubjects,
                                            newProfessors)
       IN  IF load_cache(key).exists
           THEN /\ out' = [fn |-> "get_subject_difficulty_new", arg |-> professor_id,
                           val |-> load_cache(key).data]
                /\ UNCHANGED cache
           ELSE /\ out' = [fn |-> "get_subject_difficulty_new", arg |-> professor_id,
                           val |-> df]
                /\ cache' = save_cache(df, key)
    /\ UNCHANGED inputs

\* display_student_subject_difficulty(), Old Curriculum
GetOldCurriculumDifficulty(student_id) ==
    /\ curriculum_type = "Old Curriculum"
    /\ student_id \in students
    /\ out' = [fn |-> "get_old_curriculum_difficulty", arg |-> student_id,
               val |-> get_old_curriculum_difficulty(student_id, grades)]
    /\ UNCHANGED <<inputs, cache>>

\* display_student_subject_difficulty(), New Curriculum
GetNewCurriculumDifficulty(student_id) ==
    /\ curriculum_type = "New Curriculum"
    /\ student_id \in newStudents
    /\ out' = [fn |-> "get_new_curriculum_difficulty", arg |-> student_id,
               val |-> get_new_curriculum_difficulty(student_id, newGrades, newSubjects,
                                                     newSections)]
    /\ UNCHANGED <<inputs, cache>>

NextDifficulty ==
    \/ \E p \in ProfessorIds : DisplaySubjectDifficultyOld(p)
    \/ \E p \in ProfessorIds : DisplaySubjectDifficultyNew(p)
    \/ \E sid \in StudentIds : GetOldCurriculumDifficulty(sid)
    \/ \E sid \in StudentIds : GetNewCurriculumDifficulty(sid)

SpecDifficulty == InitDifficulty /\ [][NextDifficulty]_vars

HeatmapShown == out.fn \in {"get_subject_difficulty_old", "get_subject_difficulty_new"}

RatingsShown ==
    /\ out.fn \in {"get_old_curriculum_difficulty", "get_new_curriculum_difficulty"}
    /\ out.val.kind = "table"

\* the label the fixed thresholds give to a fail rate and a dropout rate in
\* tenths of a percent
ThresholdLabel(failRate, dropoutRate) ==
    IF failRate >= 200 \/ dropoutRate >= 50 THEN "High"
    ELSE IF failRate >= 100 \/ dropoutRate >= 20 THEN "Medium"
    ELSE "Low"

\* C11: every difficulty label is the one the fixed thresholds give: High
\* if failRate >= 20% or dropoutRate >= 5%, else Medium if failRate >= 10%
\* or dropoutRate >= 2%, else Low, in the heatmap (classify_difficulty) and
\* in the student ratings (get_difficulty_level, whose fail rate is the
\* share of grades under 70 and which has no dropout rate).
C11_LabelFollowsThresholds ==
    /\ HeatmapShown =>
          \A k \in DOMAIN out.val.v :
              out.val.v[k].Level = ThresholdLabel(out.val.v[k].FailRate,
                                                  out.val.v[k].DropoutRate)
    /\ RatingsShown =>
          \A i \in 1..Len(out.val.v) :
              out.val.v[i].Level =
                  ThresholdLabel(10 * (out.val.v[i].Dist["< 60 (%)"]
                                       + out.val.v[i].Dist["60-69 (%)"]), 0)

\* the enrollments in the subjects of a professor, as (code, grade, dropped)
ProfessorEnrollments(prof) ==
    IF curriculum_type = "Old Curriculum"
    THEN LET Cells(g) ==
                 [i \in 1..Len(g.SubjectCodes) |->
                     [code |-> g.SubjectCodes[i], grade |-> g.Grades[i],
                      dropped |-> g.Grades[i] = DROPPED,
                      teacher |-> IF i <= Len(g.Teachers) THEN g.Teachers[i]
                                  ELSE TeacherOf(subjects, g.SubjectCodes[i])]]
         IN  SelectSeq(Flatten([d \in 1..Len(grades) |-> Cells(grades[d])]),
                       LAMBDA e : e.teacher = prof)
    ELSE LET cells == [i \in 1..Len(newGrades) |->
                         [code |-> newGrades[i].subjectId,
                          grade |-> newGrades[i].numericGrade,
                          dropped |-> newGrades[i].status = "Dropout",
                          teacher |-> newSubjects[newGrades[i].subjectId].professorId]]
         IN  SelectSeq(cells, LAMBDA e : e.teacher = prof)

\* C12: the fail rate and the dropout rate of a subject are taken over its
\* numeric and dropped enrollments only: an enrollment with a null or INC
\* grade and no dropped status is counted neither as a dropout nor as a
\* fail nor as a pass.
C12_RatesOverNumericAndDropped ==
    HeatmapShown =>
        \A k \in DOMAIN out.val.v :
            LET es == SelectSeq(ProfessorEnrollments(out.arg), LAMBDA e : e.code = k)
                dropped == SelectSeq(es, LAMBDA e : e.dropped)
                numeric == SelectSeq(es, LAMBDA e : ~e.dropped /\ IsNumber(e.grade))
                failed == SelectSeq(numeric, LAMBDA e : e.grade < 75)
                total == Len(dropped) + Len(numeric)
            IN  /\ total > 0
                /\ out.val.v[k].FailRate = round1(Len(failed), total)
                /\ out.val.v[k].DropoutRate = round1(Len(dropped), total)

----------------------------------------------------------------------------
(* pages/drop.py : retention and dropout between consecutive semesters *)

\* str(x) of a natural number, as its sequence of decimal digits
RECURSIVE Str(_)
Str(n) == IF n < 10 THEN <<n>> ELSE Append(Str(n \div 10), n % 10)

\* s < t for two strings
RECURSIVE StrLess(_, _)
StrLess(s, t) ==
    IF t = <<>> THEN FALSE
    ELSE IF s = <<>> THEN TRUE
    ELSE IF Head(s) # Head(t) THEN Head(s) < Head(t)
    ELSE StrLess(Tail(s), Tail(t))

\* insert x behind the elements of the sorted list s whose key is not larger
RECURSIVE InsertByStr(_, _)
InsertByStr(s, x) ==
    IF s = <<>> THEN <<x>>
    ELSE IF StrLess(Str(x), Str(Head(s))) THEN <<x>> \o s
    ELSE <<Head(s)>> \o InsertByStr(Tail(s), x)

\* sem_ids.sort(key=lambda x: str(x))
RECURSIVE SortByStr(_)
SortByStr(s) ==
    IF s = <<>> THEN <<>>
    ELSE InsertByStr(SortByStr(SubSeq(s, 1, Len(s) - 1)), s[Len(s)])

\* list(sem_students.keys()): the semesters in the order of their first
\* document, enrolled being the (semester, student) pairs of the documents
RECURSIVE KeysOf(_)
KeysOf(enrolled) ==
    IF enrolled = <<>> THEN <<>>
    ELSE LET before == KeysOf(SubSeq(enrolled, 1, Len(enrolled) - 1))
             sem_id == enrolled[Len(enrolled)][1]
         IN  IF InSeq(sem_id, before) THEN before ELSE Append(before, sem_id)

\* lines 64-76: the row of two consecutive semesters, the rate in tenths of
\* a percent as f"{rate:.1f}" prints it
RetentionRow(curr, next, curr_students, next_students, sems) ==
    [Curr |-> curr, Next |-> next,
     Label |-> <<SemLabel(sems, curr), SemLabel(sems, next)>>,
     Retained |-> Cardinality(curr_students \cap next_students),
     Dropped |-> Cardinality(curr_students \ next_students),
     Rate |-> IF curr_students # {}
              THEN round1(Cardinality(curr_students \cap next_students),
                          Cardinality(curr_students))
              ELSE 0]

\* lines 44-78 and 88-121, enrolled being the (semester, student) pairs of
\* the grade documents in collection order
RetentionTable(enrolled, sems) ==
    LET sem_students(t) == {enrolled[i][2] : i \in {j \in 1..Len(enrolled) : enrolled[j][1] = t}}
        sem_ids == SortByStr(KeysOf(enrolled))
    IN  [kind |-> "table",
         v |-> [i \in 1..(Len(sem_ids) - 1) |->
                  RetentionRow(sem_ids[i], sem_ids[i + 1], sem_students(sem_ids[i]),
                               sem_students(sem_ids[i + 1]), sems)]]

\* calculate_retention_old(); sid = g["StudentID"] raises KeyError on a
\* document without the key
calculate_retention_old(gr, sems) ==
    IF \E d \in 1..Len(gr) : gr[d].StudentID = MISSING THEN Raise
    ELSE RetentionTable([d \in 1..Len(gr) |-> <<gr[d].SemesterID, gr[d].StudentID>>], sems)

\* calculate_retention_new(); sid = g["studentId"] raises KeyError on a
\* document without the key
calculate_retention_new(gr, sems) ==
    IF \E d \in 1..Len(gr) : gr[d].studentId = MISSING THEN Raise
    ELSE RetentionTable([d \in 1..Len(gr) |-> <<gr[d].termId, gr[d].studentId>>], sems)

----------------------------------------------------------------------------
(* Retention applied to bounded collections *)

MaxStudents == 3    \* students with grade documents in the retention report

\* semester identifiers in chronological order; "10" sorts before "2"
RetentionTerms == <<2, 9, 10>>

RetentionSemesters ==
    [t \in {RetentionTerms[i] : i \in 1..Len(RetentionTerms)} |->
        [Semester |-> IF t = 9 THEN 1 ELSE 2, SchoolYear |-> IF t = 2 THEN 1 ELSE 2]]

\* the (student, semester) pairs in collection order
RetentionKeys ==
    Flatten([s \in 1..MaxStudents |-> [i \in 1..Len(RetentionTerms) |-> <<s, RetentionTerms[i]>>]])

\* the pairs of RetentionKeys that belong to the set P, in their order
EnrolledPairs(P) == SelectSeq(RetentionKeys, LAMBDA k : k \in P)

InitRetentionOld ==
    /\ \E P \in SUBSET {RetentionKeys[i] : i \in 1..Len(RetentionKeys)} :
          grades = [d \in 1..Len(EnrolledPairs(P)) |->
                      [StudentID |-> EnrolledPairs(P)[d][1],
                       SemesterID |-> EnrolledPairs(P)[d][2],
                       SubjectCodes |-> <<1>>, Grades |-> <<88>>]]
    /\ subjects = EmptyDict
    /\ students = 1..MaxStudents
    /\ semesters = RetentionSemesters
    /\ NoNewCollections
    /\ curriculum_type = "Old Curriculum"

InitRetentionNew ==
    /\ \E P \in SUBSET {RetentionKeys[i] : i \in 1..Len(RetentionKeys)} :
          newGrades = [d \in 1..Len(EnrolledPairs(P)) |->
                         [studentId |-> EnrolledPairs(P)[d][1],
                          termId |-> EnrolledPairs(P)[d][2],
                          subjectId |-> 1, numericGrade |-> 88]]
    /\ newSubjects = EmptyDict
    /\ newSections = <<>>
    /\ newProfessors = {}
    /\ curriculums = <<>>
    /\ newStudents = 1..MaxStudents
    /\ newSemesters = RetentionSemesters
    /\ NoOldCollections
    /\ curriculum_type = "New Curriculum"

InitRetention ==
    /\ InitRetentionOld \/ InitRetentionNew
    /\ dist_grades = <<>>
    /\ cache = EmptyCache
    /\ out = NoOutput
    /\ NoSession
    /\ NoLoad

\* retention_view(), Old Curriculum
CalculateRetentionOld ==
    /\ curriculum_type = "Old Curriculum"
    /\ out' = [fn |-> "calculate_retention_old", arg |-> 0,
               val |-> calculate_retention_old(grades, semesters)]
    /\ UNCHANGED <<inputs, cache>>

\* retention_view(), New Curriculum
CalculateRetentionNew ==
    /\ curriculum_type = "New Curriculum"
    /\ out' = [fn |-> "calculate_retention_new", arg |-> 0,
               val |-> calculate_retention_new(newGrades, newSemesters)]
    /\ UNCHANGED <<inputs, cache>>

NextRetention == CalculateRetentionOld \/ CalculateRetentionNew

SpecRetention == InitRetention /\ [][NextRetention]_vars

RetentionShown == out.fn \in {"calculate_retention_old", "calculate_retention_new"}

\* the students with a grade document in term t
TermStudents(t) ==
    IF curriculum_type = "Old Curriculum"
    THEN {grades[d].StudentID : d \in {j \in 1..Len(grades) : grades[j].SemesterID = t}}
    ELSE {newGrades[d].studentId : d \in {j \in 1..Len(newGrades) : newGrades[j].termId = t}}

\* the terms with enrollments, in ascending term order
TermsEnrolled == SelectSeq(RetentionTerms, LAMBDA t : TermStudents(t) # {})

\* the position of term t in the term order
TermIndex(t) == CHOOSE i \in 1..Len(RetentionTerms) : RetentionTerms[i] = t

\* C13: every retention row compares an earlier term with student set A
\* and a later term with student set B, and has retained = |A \cap B|,
\* retained + dropped = |A| and rate = retained / |A| * 100, 0 when A is
\* empty.
C13_RetentionRow ==
    RetentionShown =>
        \A i \in 1..Len(out.val.v) :
            LET row == out.val.v[i]
                earlier == IF TermIndex(row.Curr) < TermIndex(row.Next) THEN row.Curr ELSE row.Next
                later == IF earlier = row.Curr THEN row.Next ELSE row.Curr
                A == TermStudents(earlier)
                B == TermStudents(later)
            IN  /\ row.Retained = Cardinality(A \cap B)
                /\ row.Retained + row.Dropped = Cardinality(A)
                /\ row.Rate = IF A = {} THEN 0 ELSE round1(Cardinality(A \cap B), Cardinality(A))

\* C14: the terms are consumed in ascending term order: row i compares the
\* i-th term with enrollments with its immediate successor, and N terms
\* with enrollments give exactly N - 1 rows, none for the final term.
C14_AscendingTermOrder ==
    RetentionShown =>
        /\ Len(out.val.v) = (IF TermsEnrolled = <<>> THEN 0 ELSE Len(TermsEnrolled) - 1)
        /\ \A i \in 1..Len(out.val.v) :
              /\ out.val.v[i].Curr = TermsEnrolled[i]
              /\ out.val.v[i].Next = TermsEnrolled[i + 1]

----------------------------------------------------------------------------
(* pages/curriculum_view.py : curriculum viewer and next-semester prediction *)

\* str(val).lower() for the semester texts of the collections
Lower(val) ==
    CASE val = "First" -> "first"
      [] val = "Second" -> "second"
      [] val = "Summer" -> "summer"
      [] OTHER -> val

\* normalize_semester(val)
normalize_semester(val) ==
    IF Lower(val) \in {"1", "first", "firstsem", "first semester"} THEN 1
    ELSE IF Lower(val) \in {"2", "second", "secondsem", "second semester"} THEN 2
    ELSE None

\* the values the fetchers return: no student, or the student and the rows
NoStudent == [kind |-> "no student", student |-> 0, df |-> <<>>]
Fetched(student, df) == [kind |-> "fetched", student |-> student, df |-> df]

\* get_old_curriculum(student_id): one row per subject of the student's
\* grades documents; (g.get("Grades") or [""] * 5)[i] raises IndexError when
\* the list in use has no position i, "" being rendered None
get_old_curriculum(student_id, studs, subjs, sems, gr) ==
    IF student_id \notin DOMAIN studs THEN NoStudent
    ELSE LET mine == SelectSeq(gr, LAMBDA x : x.StudentID = student_id)
             GradeList(g) == IF g.Grades = <<>> THEN [i \in 1..5 |-> None] ELSE g.Grades
             Rows(g) ==
                 [i \in 1..Len(g.SubjectCodes) |->
                     [YearLevel |-> studs[student_id].YearLevel,
                      Semester |-> IF g.SemesterID \in DOMAIN sems
                                   THEN sems[g.SemesterID].Semester ELSE "",
                      SubjectCode |-> g.SubjectCodes[i],
                      Grade |-> GradeList(g)[i]]]
         IN  IF \E d \in 1..Len(mine) : Len(GradeList(mine[d])) < Len(mine[d].SubjectCodes)
             THEN Raise
             ELSE Fetched(studs[student_id], Flatten([d \in 1..Len(mine) |-> Rows(mine[d])]))

\* get_new_curriculum(student_id): one row per newGrades document of the
\* student, placed by the yearLevel and semester of its subject document; a
\* missing yearLevel "" is rendered None
get_new_curriculum(student_id, studs, subjs, gr) ==
    IF student_id \notin DOMAIN studs THEN NoStudent
    ELSE LET mine == SelectSeq(gr, LAMBDA x : x.studentId = student_id)
         IN  Fetched(studs[student_id],
                     [i \in 1..Len(mine) |->
                        LET known == mine[i].subjectId \in DOMAIN subjs IN
                        [YearLevel |-> IF known THEN subjs[mine[i].subjectId].yearLevel ELSE None,
                         Semester |-> IF known THEN subjs[mine[i].subjectId].semester ELSE "",
                         SubjectCode |-> IF known THEN subjs[mine[i].subjectId].Code ELSE 0,
                         Grade |-> mine[i].numericGrade]])

\* the largest element of a non-empty set of numbers
MaxOf(S) == CHOOSE m \in S : \A x \in S : x <= m

\* lines 228-235: the position predicted from the rows.  The max skips the
\* values that are not numbers; a YearLevel column holding a value that is
\* not a number is a float column, whose max prints as "1.0" and matches no
\* str(YearLevel), so no row is selected and current_sem is NaN
NextPosition(df) ==
    LET years == {df[i].YearLevel : i \in 1..Len(df)} \ {None}
        current_year == IF years = {} THEN None ELSE MaxOf(years)
        selected == IF \E i \in 1..Len(df) : df[i].YearLevel = None THEN {}
                    ELSE {i \in 1..Len(df) : df[i].YearLevel = current_year}
        sems == {normalize_semester(df[i].Semester) : i \in selected} \ {None}
        current_sem == IF sems = {} THEN None ELSE MaxOf(sems)
    IN  IF current_sem = 1 THEN <<current_year, 2>>
        ELSE <<IF current_year = None THEN None ELSE current_year + 1, 1>>

\* lines 242-246: the first curriculum of the student's course and year
FindCurriculum(student, currs) ==
    SelectSeq(currs, LAMBDA c : c.courseCode = student.courseCode
                                /\ c.curriculumYear = student.curriculumYear)

\* the prerequisite field of a curriculum subject: absent, null, or a
\* string holding the listed codes separated by commas
PrereqAbsent == [kind |-> "absent", codes |-> <<>>]
PrereqNull == [kind |-> "null", codes |-> <<>>]
PrereqStr(codes) == [kind |-> "str", codes |-> codes]

\* pd.to_numeric(df["Grade"], errors="coerce").fillna(0)
GradeOrZero(grade) == IF IsNumber(grade) THEN grade ELSE 0

\* lines 285-286: the codes checked for a candidate.  An absent field is
\* NaN in the frame, which is true and prints as "nan"; 0 stands for "nan"
PrereqCodes(prerequisite) ==
    IF prerequisite.kind = "absent" THEN <<0>>
    ELSE IF prerequisite.kind = "null" THEN <<>>
    ELSE prerequisite.codes

\* lines 252-291: the Recommended and Blocked lists, as subject codes, and
\* the failed_codes that open Recommended.
\* A curriculum without subjects gives a frame without columns, on which
\* all_subjects["YearLevel"] raises KeyError; so does row["Prerequisites"]
\* when no subject of the curriculum has the prerequisite field
Resolve(df, curriculum, next) ==
    LET all_subjects == curriculum.subjects
        failed_subjects == SelectSeq(df, LAMBDA r : GradeOrZero(r.Grade) < 75)
        next_subjects == SelectSeq(all_subjects, LAMBDA s :
                             s.yearLevel = next[1] /\ s.semester = next[2])
        passed == SelectSeq(df, LAMBDA r : GradeOrZero(r.Grade) >= 75)
        passed_codes == {passed[i].SubjectCode : i \in 1..Len(passed)}
        IsBlocked(s) == \E j \in 1..Len(PrereqCodes(s.prerequisite)) :
                            PrereqCodes(s.prerequisite)[j] \notin passed_codes
        blocked == SelectSeq(next_subjects, LAMBDA s : IsBlocked(s))
        unblocked == SelectSeq(next_subjects, LAMBDA s : ~IsBlocked(s))
    IN  IF all_subjects = <<>> THEN Raise
        ELSE IF next_subjects # <<>>
                /\ \A i \in 1..Len(all_subjects) : all_subjects[i].prerequisite.kind = "absent"
             THEN Raise
        ELSE [kind |-> "resolved", next |-> next,
              Repeat |-> [i \in 1..Len(failed_subjects) |-> failed_subjects[i].SubjectCode],
              Recommended |-> [i \in 1..Len(failed_subjects) |-> failed_subjects[i].SubjectCode]
                              \o [i \in 1..Len(unblocked) |-> unblocked[i].subjectCode],
              Blocked |-> [i \in 1..Len(blocked) |-> blocked[i].subjectCode]]

\* the page stops with a message and shows no list
Stopped(message, next) ==
    [kind |-> message, next |-> next, Repeat |-> <<>>, Recommended |-> <<>>,
     Blocked |-> <<>>]

\* curriculum_view() from the fetch on, lines 160-310
ViewCurriculum(type, fetched, currs) ==
    IF fetched.kind = "raise" THEN Raise
    ELSE IF fetched.kind = "no student" THEN Stopped("Student not found.", <<None, None>>)
    ELSE IF fetched.df = <<>>
         THEN Stopped("No subjects/grades found for this student.", <<None, None>>)
    ELSE LET next == NextPosition(fetched.df)
             found == IF type # "Old Curriculum"
                      THEN FindCurriculum(fetched.student, currs) ELSE <<>>
         IN  IF found = <<>>
             THEN Stopped("Curriculum structure not found for this student.", next)
             ELSE Resolve(fetched.df, found[1], next)

----------------------------------------------------------------------------
(* Curriculum viewer applied to bounded collections *)

\* the Semester texts of the terms 1, 2 and 3
SemesterTexts == <<"1", "Second", "Summer">>

ProgressionSemesters ==
    [t \in 1..Len(SemesterTexts) |-> [Semester |-> SemesterTexts[t], SchoolYear |-> 1]]

\* the newSubjects documents: subject 1 belongs to year 1 and any term,
\* subject 2 to year 1 or 2 and term 1 or 2
ProgressionCatalogs ==
    {[c \in SubjectIds |->
        [Code |-> c, Units |-> 3,
         yearLevel |-> IF c = 1 THEN 1 ELSE y,
         term |-> IF c = 1 THEN t1 ELSE t2,
         semester |-> SemesterTexts[IF c = 1 THEN t1 ELSE t2]]] :
        t1 \in 1..3, y \in 1..2, t2 \in 1..2}

ProgressionGrades == {None, 60, 88}

\* the history of student 1: at most MaxEnroll graded subjects
Histories ==
    UNION {[1..n -> [subject : SubjectIds, grade : ProgressionGrades]] : n \in 0..MaxEnroll}

PrereqValues == {PrereqAbsent, PrereqNull, PrereqStr(<<>>), PrereqStr(<<1>>), PrereqStr(<<2>>)}

\* the entries a curriculum can hold for subject c
PlanEntries(c) ==
    {<<>>} \cup {<< [subjectCode |-> c, yearLevel |-> pos[1], semester |-> pos[2],
                    prerequisite |-> pre] >> :
                    pos \in {<<1, 2>>, <<2, 1>>}, pre \in PrereqValues}

\* the curriculums collection: empty, or the curriculum of the student
CurriculumLists ==
    {<<>>} \cup {<< [courseCode |-> 1, curriculumYear |-> 1, subjects |-> e1 \o e2] >> :
                    e1 \in PlanEntries(1), e2 \in PlanEntries(2)}

\* Old schema: the history as one grades document per semester attended
OldHistoryDocs(h, catalog) ==
    LET Of(t) == SelectSeq(h, LAMBDA e : catalog[e.subject].term = t)
        used == SelectSeq(<<1, 2, 3>>, LAMBDA t : Of(t) # <<>>)
    IN  [d \in 1..Len(used) |->
            [StudentID |-> 1, SemesterID |-> used[d],
             SubjectCodes |-> [i \in 1..Len(Of(used[d])) |-> Of(used[d])[i].subject],
             Grades |-> [i \in 1..Len(Of(used[d])) |-> Of(used[d])[i].grade]]]

\* New schema: the history as one newGrades document per subject taken
NewHistoryDocs(h, catalog) ==
    [i \in 1..Len(h) |->
        [studentId |-> 1, termId |-> catalog[h[i].subject].term,
         subjectId |-> h[i].subject, numericGrade |-> h[i].grade]]

\* both schemas hold the same history of student 1 and the same subjects;
\* the Old student document carries the highest year level attended
InitProgression ==
    /\ \E h \in Histories : \E catalog \in ProgressionCatalogs :
          /\ newSubjects = catalog
          /\ subjects = catalog
          /\ newGrades = NewHistoryDocs(h, catalog)
          /\ grades = OldHistoryDocs(h, catalog)
          /\ students = [id \in {1} |->
                [Course |-> 1,
                 YearLevel |-> MaxOf({1} \cup {catalog[h[i].subject].yearLevel : i \in 1..Len(h)})]]
    /\ newStudents = [id \in {1} |-> [courseCode |-> 1, curriculumYear |-> 1]]
    /\ semesters = ProgressionSemesters
    /\ newSemesters = ProgressionSemesters
    /\ curriculums \in CurriculumLists
    /\ newSections = <<>>
    /\ newProfessors = {}
    /\ curriculum_type \in {"Old Curriculum", "New Curriculum"}
    /\ dist_grades = <<>>
    /\ cache = EmptyCache
    /\ out = NoOutput
    /\ NoSession
    /\ NoLoad

\* curriculum_view(), Old Curriculum
ViewOldCurriculum(student_id) ==
    /\ curriculum_type = "Old Curriculum"
    /\ student_id \in DOMAIN students
    /\ out' = [fn |-> "curriculum_view", arg |-> student_id,
               val |-> ViewCurriculum(curriculum_type,
                          get_old_curriculum(student_id, students, subjects, semesters, grades),
                          curriculums)]
    /\ UNCHANGED <<inputs, cache>>

\* curriculum_view(), New Curriculum
ViewNewCurriculum(student_id) ==
    /\ curriculum_type = "New Curriculum"
    /\ student_id \in DOMAIN newStudents
    /\ out' = [fn |-> "curriculum_view", arg |-> student_id,
               val |-> ViewCurriculum(curriculum_type,
                          get_new_curriculum(student_id, newStudents, newSubjects, newGrades),
                          curriculums)]
    /\ UNCHANGED <<inputs, cache>>

NextProgression ==
    \/ \E sid \in StudentIds : ViewOldCurriculum(sid)
    \/ \E sid \in StudentIds : ViewNewCurriculum(sid)

SpecProgression == InitProgression /\ [][NextProgression]_vars

ProgressionShown == out.fn = "curriculum_view"

\* the prediction reached the lists
Resolved == ProgressionShown /\ out.val.kind = "resolved"

\* the history rows of student sid under the selected curriculum
HistoryRows(sid) ==
    IF curriculum_type = "Old Curriculum"
    THEN get_old_curriculum(sid, students, subjects, semesters, grades).df
    ELSE get_new_curriculum(sid, newStudents, newSubjects, newGrades).df

\* C15: the Next position is derived from the Current position (max year
\* level attended, max term-in-year attended in that year): (y, 1) goes to
\* (y, 2), (y, 2) goes to (y + 1, 1), and a history whose term in that year
\* is missing or unrecognised is not advanced to the next year.
C15_NextFromCurrent ==
    (ProgressionShown /\ out.val.kind # "raise" /\ HistoryRows(out.arg) # <<>>) =>
        LET df == HistoryRows(out.arg)
            y == MaxOf({df[i].YearLevel : i \in 1..Len(df)})
            terms == {normalize_semester(df[i].Semester) :
                         i \in {j \in 1..Len(df) : df[j].YearLevel = y}} \ {None}
        IN  IF terms = {} THEN out.val.next[1] # y + 1
            ELSE IF MaxOf(terms) = 1 THEN out.val.next = <<y, 2>>
            ELSE out.val.next = <<y + 1, 1>>

\* the subject codes of a list
Codes(list) == {list[i] : i \in 1..Len(list)}

\* the subjects of the history with a numeric grade below 75
FailedNumeric(sid) ==
    {HistoryRows(sid)[i].SubjectCode :
        i \in {j \in 1..Len(HistoryRows(sid)) :
                  IsNumber(HistoryRows(sid)[j].Grade) /\ HistoryRows(sid)[j].Grade < 75}}

\* the subjects of the history with a grade of 75 or more
PassingSet(sid) ==
    {HistoryRows(sid)[i].SubjectCode :
        i \in {j \in 1..Len(HistoryRows(sid)) :
                  IsNumber(HistoryRows(sid)[j].Grade) /\ HistoryRows(sid)[j].Grade >= 75}}

\* C16: the Repeat set is exactly the subjects of the history with a
\* numeric grade below 75, each of them is in Recommended, and a subject
\* whose grade is null is not in the Repeat set.
C16_RepeatSetIsNumericFailures ==
    Resolved =>
        /\ Codes(out.val.Repeat) = FailedNumeric(out.arg)
        /\ Codes(out.val.Repeat) \subseteq Codes(out.val.Recommended)

\* the curriculum subjects registered at the position shown as Next
Candidates(sid) ==
    LET found == FindCurriculum(newStudents[sid], curriculums)
    IN  IF found = <<>> THEN <<>>
        ELSE SelectSeq(found[1].subjects, LAMBDA s :
                 s.yearLevel = NextPosition(HistoryRows(sid))[1]
                 /\ s.semester = NextPosition(HistoryRows(sid))[2])

\* a candidate has a prerequisite code outside the passing set; an empty,
\* null or absent prerequisite field lists no code
Unmet(sid, s) ==
    /\ s.prerequisite.kind = "str"
    /\ \E j \in 1..Len(s.prerequisite.codes) : s.prerequisite.codes[j] \notin PassingSet(sid)

\* C17: a candidate at the Next position is Blocked if and only if one of
\* its prerequisite codes is not in the passing set; a candidate without
\* prerequisites (empty, null or absent field) is never Blocked, and a
\* failed prerequisite of a Blocked candidate reappears in Recommended.
C17_BlockedIffPrerequisiteUnmet ==
    Resolved =>
        \A i \in 1..Len(Candidates(out.arg)) :
            LET s == Candidates(out.arg)[i] IN
            /\ s.subjectCode \in Codes(out.val.Blocked) <=> Unmet(out.arg, s)
            /\ Unmet(out.arg, s) =>
                  \A j \in 1..Len(s.prerequisite.codes) :
                      s.prerequisite.codes[j] \in FailedNumeric(out.arg)
                          => s.prerequisite.codes[j] \in Codes(out.val.Recommended)

\* C18: Recommended and Blocked are disjoint, and Recommended is exactly
\* the repeat set together with the unblocked candidates.
C18_RecommendedBlockedDisjoint ==
    Resolved =>
        /\ Codes(out.val.Recommended) \cap Codes(out.val.Blocked) = {}
        /\ Codes(out.val.Recommended) =
              FailedNumeric(out.arg)
              \cup {Candidates(out.arg)[i].subjectCode :
                       i \in {j \in 1..Len(Candidates(out.arg)) :
                                 ~Unmet(out.arg, Candidates(out.arg)[j])}}

\* the student's curriculum is found and registers no subject at Next
NothingAtNext(sid) ==
    /\ curriculum_type = "New Curriculum"
    /\ HistoryRows(sid) # <<>>
    /\ FindCurriculum(newStudents[sid], curriculums) # <<>>
    /\ Candidates(sid) = <<>>

\* C19: when the curriculum has no subject at the Next position (its
\* subject list may be empty) the resolution completes without raising,
\* with an empty Blocked list and no candidate in Recommended.
C19_NoCandidatesNoError ==
    (ProgressionShown /\ NothingAtNext(out.arg)) =>
        /\ out.val.kind = "resolved"
        /\ out.val.Blocked = <<>>
        /\ out.val.Recommended = out.val.Repeat

\* the lists a variant shows for student sid
ListsOf(type, sid) ==
    LET view == ViewCurriculum(type,
                    IF type = "Old Curriculum"
                    THEN get_old_curriculum(sid, students, subjects, semesters, grades)
                    ELSE get_new_curriculum(sid, newStudents, newSubjects, newGrades),
                    curriculums)
    IN  IF view.kind = "raise"
        THEN [raised |-> TRUE, Recommended |-> <<>>, Blocked |-> <<>>]
        ELSE [raised |-> FALSE, Recommended |-> view.Recommended, Blocked |-> view.Blocked]

\* C20: for the same history and the same curriculum plan the Old variant
\* and the New variant give the same Recommended and Blocked lists.
C20_SameListsInBothSchemas ==
    ProgressionShown =>
        ListsOf("Old Curriculum", out.arg) = ListsOf("New Curriculum", out.arg)

----------------------------------------------------------------------------
(* data_collection.py : load_collections(), cache file first, then MongoDB *)

\* the collections of the database, in the order list_collection_names()
\* gives them
CollectionNames == <<"grades", "subjects", "students">>

\* the documents of a collection are named by the snapshot they belong to
StaleDocs == "docs of an earlier snapshot"
CurrentDocs == "docs of the database"

\* the databases the loader runs against: any set of the collections
Databases ==
    {[c \in S |-> CurrentDocs] :
        S \in SUBSET {CollectionNames[i] : i \in 1..Len(CollectionNames)}}

\* the data_cache.pkl files the loader starts with: none, one that does not
\* unpickle, and one pickled by an earlier run
CacheFileStates ==
    {[state |-> "missing", data |-> EmptyDict],
     [state |-> "corrupted", data |-> EmptyDict],
     [state |-> "ok", data |-> EmptyDict],
     [state |-> "ok", data |-> [c \in {"grades", "subjects"} |-> StaleDocs]]}

\* the locals of load_collections() when it is entered
LoadStart ==
    [pc |-> "start", data_collections |-> EmptyDict, pending |-> <<>>,
     queried |-> {}, result |-> EmptyDict]

\* return of load_collections() with the value r
Return(l, r) == [l EXCEPT !.pc = "done", !.result = r]

InitLoad ==
    /\ cache_file \in CacheFileStates
    /\ db \in Databases
    /\ load = LoadStart
    /\ NoCollections
    /\ NoSession
    /\ dist_grades = <<>>
    /\ curriculum_type = "Old Curriculum"
    /\ cache = EmptyCache
    /\ out = NoOutput

\* lines 33-38: the cache file exists and unpickles: its content is
\* returned; it is missing or pickle.load raises: fall through to the
\* database
ReadCacheFile ==
    /\ load.pc = "start"
    /\ load' = IF cache_file.state = "ok"
               THEN Return(load, cache_file.data)
               ELSE [load EXCEPT !.pc = "list"]
    /\ UNCHANGED <<collections, curriculum_type, browser, cache_file, db, cache, out>>

\* lines 41-44: db.list_collection_names(), which answers or raises; the
\* except clause reports the error and the empty dict is returned
ListCollectionNames(answers) ==
    /\ load.pc = "list"
    /\ load' = IF answers
               THEN [load EXCEPT !.pc = "fetch",
                                 !.queried = @ \cup {"list_collection_names"},
                                 !.pending = SelectSeq(CollectionNames,
                                                 LAMBDA c : c \in DOMAIN db)]
               ELSE Return([load EXCEPT !.queried = @ \cup {"list_collection_names"}],
                           load.data_collections)
    /\ UNCHANGED <<collections, curriculum_type, browser, cache_file, db, cache, out>>

\* one pass of the loop of lines 45-46 that writes the cache file at the
\* end of every pass
FetchCollection_DumpsEveryPass(answers) ==
    /\ load.pc = "fetch"
    /\ load.pending # <<>>
    /\ LET col == Head(load.pending)
           asked == [load EXCEPT !.queried = @ \cup {col}]
           fetched == [c \in DOMAIN load.data_collections \cup {col} |->
                          IF c = col THEN db[col] ELSE load.data_collections[c]]
       IN  IF answers
           THEN /\ load' = [asked EXCEPT !.data_collections = fetched,
                                         !.pending = Tail(load.pending)]
                /\ cache_file' = [state |-> "ok", data |-> fetched]
           ELSE /\ load' = Return(asked, load.data_collections)
                /\ UNCHANGED cache_file
    /\ UNCHANGED <<collections, curriculum_type, browser, db, cache, out>>

\* one pass of the loop of lines 45-46: db[col].find({}) answers and the
\* documents are stored under col, or it raises and the collections
\* fetched so far are returned, the cache file not being touched
FetchCollection(answers) ==
    /\ load.pc = "fetch"
    /\ load.pending # <<>>
    /\ LET col == Head(load.pending)
           asked == [load EXCEPT !.queried = @ \cup {col}]
           fetched == [c \in DOMAIN load.data_collections \cup {col} |->
                          IF c = col THEN db[col] ELSE load.data_collections[c]]
       IN  IF answers
           THEN /\ load' = [asked EXCEPT !.data_collections = fetched,
                                         !.pending = Tail(load.pending)]
                /\ UNCHANGED cache_file
           ELSE /\ load' = Return(asked, load.data_collections)
                /\ UNCHANGED cache_file
    /\ UNCHANGED <<collections, curriculum_type, browser, db, cache, out>>

\* lines 48-53 after the last pass: the file is opened for writing and the
\* dict is pickled into it.  "written": both succeed; "truncated": open
\* succeeds and pickle.dump raises, leaving a file that does not unpickle;
\* "refused": open raises and the file stays as it was
DumpCacheFile(outcome) ==
    /\ load.pc = "fetch"
    /\ load.pending = <<>>
    /\ cache_file' =
          IF outcome = "written" THEN [state |-> "ok", data |-> load.data_collections]
          ELSE IF outcome = "truncated" THEN [state |-> "corrupted", data |-> EmptyDict]
          ELSE cache_file
    /\ load' = Return(load, load.data_collections)
    /\ UNCHANGED <<collections, curriculum_type, browser, db, cache, out>>

\* line 57: the module is imported by the next server process
ImportDataCollection ==
    /\ load.pc = "done"
    /\ load' = LoadStart
    /\ UNCHANGED <<collections, curriculum_type, browser, cache_file, db, cache, out>>

NextLoad ==
    \/ ReadCacheFile
    \/ \E answers \in BOOLEAN : ListCollectionNames(answers)
    \/ \E answers \in BOOLEAN : FetchCollection(answers)
    \/ \E outcome \in {"written", "truncated", "refused"} : DumpCacheFile(outcome)
    \/ ImportDataCollection

SpecLoad == InitLoad /\ [][NextLoad]_vars

\* C28: load_collections follows a cache-then-database protocol.  A cache
\* file that exists and unpickles is returned as it is, the database not
\* being queried and the file not being written; a missing or corrupted
\* file sends the loader to the database, and it returns only after asking
\* it; the file is written only when every collection of the database has
\* been fetched, and then holds all of them, never a part.
C28_CacheThenDatabase ==
    [][/\ (load.pc = "start" /\ cache_file.state = "ok") =>
              /\ load'.pc = "done"
              /\ load'.result = cache_file.data
              /\ load'.queried = {}
              /\ cache_file' = cache_file
       /\ (load.pc = "start" /\ cache_file.state # "ok") => load'.pc = "list"
       /\ (load.pc # "start" /\ load'.pc = "done") =>
              /\ "list_collection_names" \in load'.queried
              /\ \A c \in DOMAIN load'.result :
                    c \in load'.queried /\ load'.result[c] = db[c]
       /\ cache_file' # cache_file =>
              /\ load.queried = {"list_collection_names"} \cup DOMAIN db
              /\ cache_file'.state = "ok" => cache_file'.data = db
      ]_vars

\* a loader that found no usable cache file has fetched a database of
\* several collections and written all of them to the cache file
C28_Witness ==
    /\ load.pc = "done"
    /\ load.queried = {"list_collection_names"} \cup DOMAIN db
    /\ Cardinality(DOMAIN db) > 1
    /\ cache_file = [state |-> "ok", data |-> db]
    /\ load.result = db

----------------------------------------------------------------------------
(* app.py, pages/dashboard.py, includes/sidebar.py : login, menus, logout *)

Old == "Old Curriculum"
New == "New Curriculum"

\* what a script run leaves on the screen.  kind "view" is a report view:
\* the view, the menu of the sidebar it belongs to, the role and the
\* curriculum it was rendered with, the picker it offers ("student",
\* "professor" or "none") and the id the report was computed for.
Shown(kind) ==
    [kind |-> kind, view |-> "", menu |-> "", role |-> "", curriculum |-> "",
     picker |-> "", subject |-> ""]

View(view, menu, ss, curriculum, picker, subject) ==
    [kind |-> "view", view |-> view, menu |-> menu, role |-> ss.role,
     curriculum |-> curriculum, picker |-> picker, subject |-> subject]

\* st.session_state.get("curriculum_type", "Old Curriculum")
CurriculumOrOld(cur) == IF cur = "absent" THEN Old ELSE cur

\* the _id values of a collection
IdsOf(docs) == {docs[i]._id : i \in 1..Len(docs)}

\* the document next(...) finds: the first one of docs that satisfies the
\* test, "None" when there is none
FirstId(matching) == IF matching = <<>> THEN "None" ELSE matching[1]._id

\* app.py lines 33-44: authenticate_user(username, password)
authenticate_user(username, password) ==
    LET Is(user) == user.username = username /\ user.password = password
    IN  IF SelectSeq(newAdmin, Is) # <<>> THEN "admin"
        ELSE IF SelectSeq(newProfessors, Is) # <<>> THEN "professor"
        ELSE IF SelectSeq(newStudents, Is) # <<>> THEN "student"
        ELSE "None"

\* get_logged_in_student(): the _id of the student document of the session
get_logged_in_student(ss, cur) ==
    IF ss.role = "student"
    THEN IF CurriculumOrOld(cur) = Old
         THEN IF ss.username \in IdsOf(students) THEN ss.username ELSE "None"
         ELSE FirstId(SelectSeq(newStudents,
                  LAMBDA s : s.studentNumber = ss.username \/ s._id = ss.username))
    ELSE "None"

\* the students a picker offers
StudentOptions(cur) == IF cur = Old THEN IdsOf(students) ELSE IdsOf(newStudents)

\* the value of a selectbox: the selected option, None without options
Selected(options, pick) == IF pick \in options THEN pick ELSE "None"

\* comparison_with_class_average() lines 256-301, and with the same steps
\* passed_vs_failed_summary(), student_subject_difficulty() and
\* display_trend_viewer(): a student gets the own record, every other role,
\* and a session without a role, the student picker
comparison_with_class_average(view, ss, cur, pick) ==
    LET curriculum == CurriculumOrOld(cur)
        student == get_logged_in_student(ss, cur)
    IN  IF ss.role = "student"
        THEN IF student = "None" THEN Shown("error")
             ELSE View(view, "Student", ss, curriculum, "none", student)
        ELSE IF StudentOptions(curriculum) = {} THEN Shown("warning")
        ELSE View(view, "Student", ss, curriculum, "student",
                  Selected(StudentOptions(curriculum), pick))

\* display_transcript_viewer() lines 139-199: st.session_state.curriculum_type
\* raises when the session never rendered the sidebar
display_transcript_viewer(ss, cur, pick) ==
    IF cur = "absent" THEN Shown("raise")
    ELSE IF ss.role = "student"
    THEN LET student == get_logged_in_student(ss, cur)
         IN  IF student = "None" THEN Shown("error")
             ELSE View("Academic Transcript Viewer", "Student", ss, cur, "none", student)
    ELSE View("Academic Transcript Viewer", "Student", ss, cur, "student",
              Selected(StudentOptions(cur), pick))

\* student_curriculum_viewer() lines 168-197
student_curriculum_viewer(ss, cur, pick) ==
    LET curriculum == CurriculumOrOld(cur)
        student == IF ss.role = "admin"
                   THEN Selected(StudentOptions(curriculum), pick)
                   ELSE get_logged_in_student(ss, cur)
    IN  IF student = "None" THEN Shown("error")
        ELSE View("Curriculum and Subject Viewer", "Student", ss, curriculum,
                  IF ss.role = "admin" THEN "student" ELSE "none", student)

\* the professors a picker offers: the teachers of the grades documents,
\* or the newProfessors documents
ProfessorOptions(cur) ==
    IF cur = Old
    THEN UNION {{grades[i].Teachers[j] : j \in 1..Len(grades[i].Teachers)} :
                  i \in 1..Len(grades)}
    ELSE IdsOf(newProfessors)

\* display_intervention_candidates() lines 195-233, and with the same steps
\* class_distribution_view(), display_student_progress(),
\* display_subject_difficulty() and display_submission_status(): the
\* attributes of the session are read without a default; a professor gets
\* the own classes, every other role the professor picker
display_intervention_candidates(view, ss, cur, pick) ==
    IF cur = "absent" \/ ss.role = "absent" \/ ss.username = "absent"
    THEN Shown("raise")
    ELSE IF ss.role = "professor"
    THEN View(view, "Faculty", ss, cur, "none", ss.username)
    ELSE View(view, "Faculty", ss, cur, "professor",
              Selected(ProfessorOptions(cur), pick))

\* display_query_builder() lines 160-186
display_query_builder(ss, cur, pick) ==
    IF cur = "absent" THEN Shown("raise")
    ELSE IF ss.role = "professor"
    THEN LET prof == FirstId(SelectSeq(newProfessors, LAMBDA p : p.username = ss.username))
         IN  IF prof = "None" THEN Shown("error")
             ELSE View("Custom Query Builder", "Faculty", ss, cur, "none", prof)
    ELSE View("Custom Query Builder", "Faculty", ss, cur, "professor",
              Selected(ProfessorOptions(cur), pick))

\* grade_analytics() lines 48-125: admin mode offers the picker, every other
\* role is taken to be the teacher named by the session
grade_analytics(ss, cur, pick) ==
    LET curriculum == CurriculumOrOld(cur)
        name == "Grades Analytics (Per Teacher)"
    IN  IF ss.role = "admin"
        THEN View(name, "Faculty", ss, curriculum, "professor",
                  Selected(ProfessorOptions(curriculum), pick))
        ELSE IF curriculum = Old
        THEN IF ss.username \in {"", "absent"} THEN Shown("blank")
             ELSE View(name, "Faculty", ss, curriculum, "none", ss.username)
        ELSE LET prof == FirstId(SelectSeq(newProfessors,
                                   LAMBDA p : p.username = ss.username))
             IN  IF prof = "None" THEN Shown("error")
                 ELSE View(name, "Faculty", ss, curriculum, "none", prof)

\* the views of the Registrar menu: a report over all students of the
\* curriculum st.session_state.curriculum_type names
registrar_view(view, ss, cur) ==
    IF cur = "absent" THEN Shown("raise")
    ELSE View(view, "Registrar", ss, cur, "none", "all")

\* sidebar.py lines 69-81, 114-126, 158-169: the options of the three menus
RegistrarOptions ==
    {"Overview", "Student Academic Standing Report",
     "Subject Pass/Fail Distribution", "Enrollment Trend Analysis",
     "Incomplete Grades Report", "Retention and Dropout Rates",
     "Top Performers per Program", "Curriculum Progress and Advising"}

FacultyOptions ==
    {"Overview", "Class Grade Distribution", "Student Progress Tracker",
     "Subject Difficulty Heatmap", "Intervention Candidates List",
     "Grade Submission Status", "Custom Query Builder",
     "Grades Analytics (Per Teacher)"}

StudentMenuOptions ==
    {"Overview", "Academic Transcript Viewer", "Performance Trend Over Time",
     "Subject Difficulty Ratings", "Comparison with Class Average",
     "Passed vs Failed Summary", "Curriculum and Subject Viewer"}

OptionsOf(menu) ==
    IF menu = "Registrar" THEN RegistrarOptions
    ELSE IF menu = "Faculty" THEN FacultyOptions
    ELSE StudentMenuOptions

\* sidebar.py lines 52-61: the menus the "Go to" radio offers to a role
MenusOf(role) ==
    IF role = "admin" THEN <<"Registrar", "Faculty", "Student">>
    ELSE IF role = "professor" THEN <<"Faculty">>
    ELSE IF role = "student" THEN <<"Student">>
    ELSE <<>>

\* sidebar.py lines 66-190: the view of the selected menu and option
MenuView(menu, option, ss, cur, pick) ==
    IF option = "Overview" THEN Shown("overview")
    ELSE IF menu = "Registrar" THEN registrar_view(option, ss, cur)
    ELSE IF menu = "Faculty"
    THEN IF option = "Custom Query Builder" THEN display_query_builder(ss, cur, pick)
         ELSE IF option = "Grades Analytics (Per Teacher)" THEN grade_analytics(ss, cur, pick)
         ELSE display_intervention_candidates(option, ss, cur, pick)
    ELSE IF option = "Academic Transcript Viewer" THEN display_transcript_viewer(ss, cur, pick)
    ELSE IF option = "Curriculum and Subject Viewer" THEN student_curriculum_viewer(ss, cur, pick)
    ELSE comparison_with_class_average(option, ss, cur, pick)

\* app.py lines 24-53: the fields of the session are created, and the
\* login form is shown unless the session is logged in
app(ss, cur) ==
    LET ss1 == [logged_in |-> IF ss.logged_in = "absent" THEN "False" ELSE ss.logged_in,
                username |-> IF ss.username = "absent" THEN "" ELSE ss.username,
                role |-> IF ss.role = "absent" THEN "" ELSE ss.role]
    IN  [session |-> ss1, curriculum_type |-> cur, page |-> "app.py",
         val |-> IF ss1.logged_in = "True" THEN Shown("blank") ELSE Shown("login")]

LoggedOut == [logged_in |-> "False", username |-> "", role |-> ""]

Flip(cur) == IF cur = New THEN Old ELSE New

\* what a run of the sidebar leaves behind
Left(ss, cur, val) ==
    [session |-> ss, curriculum_type |-> cur, page |-> "pages/dashboard.py", val |-> val]

\* sidebar_menu() without the else branch of lines 213-215, which forces
\* the New Curriculum on every role but admin
sidebar_menu_NoForce(ss, cur, menu, option, click, pick) ==
    IF ss.role = "absent" THEN Left(ss, cur, Shown("error"))
    ELSE
    LET cur1 == IF cur # "absent" THEN cur
                ELSE IF ss.role \in {"professor", "student"} THEN New ELSE Old
        view == MenuView(menu, option, ss, cur1, pick)
        cur2 == IF ss.role = "admin" /\ click = "toggle" THEN Flip(cur1) ELSE cur1
    IN  IF MenusOf(ss.role) = <<>> THEN Left(ss, cur1, Shown("error"))
        ELSE IF view.kind = "raise" THEN Left(ss, cur1, view)
        ELSE IF cur2 # cur1 THEN Left(ss, cur2, MenuView(menu, option, ss, cur2, pick))
        ELSE IF click = "logout" THEN app(LoggedOut, cur2)
        ELSE Left(ss, cur2, view)

\* sidebar_menu() for the selected menu and option and the widget that was
\* clicked ("toggle", "logout" or "none"): the default curriculum, the view,
\* the toggle of the admin, whose change reruns the script, the New
\* Curriculum forced on the other roles, and the Logout button, which
\* clears the session and switches to app.py
sidebar_menu(ss, cur, menu, option, click, pick) ==
    IF ss.role = "absent" THEN Left(ss, cur, Shown("error"))
    ELSE
    LET cur1 == IF cur # "absent" THEN cur
                ELSE IF ss.role \in {"professor", "student"} THEN New ELSE Old
        view == MenuView(menu, option, ss, cur1, pick)
        cur2 == IF ss.role = "admin"
                THEN IF click = "toggle" THEN Flip(cur1) ELSE cur1
                ELSE New
    IN  IF MenusOf(ss.role) = <<>> THEN Left(ss, cur1, Shown("error"))
        ELSE IF view.kind = "raise" THEN Left(ss, cur1, view)
        ELSE IF ss.role = "admin" /\ cur2 # cur1
        THEN Left(ss, cur2, MenuView(menu, option, ss, cur2, pick))
        ELSE IF click = "logout" THEN app(LoggedOut, cur2)
        ELSE Left(ss, cur2, view)

\* pages/dashboard.py lines 23-29: a session that is not logged in is sent
\* to app.py, every other one gets the sidebar
dashboard(ss, cur, menu, option, click, pick) ==
    IF ss.logged_in # "True" THEN app(ss, cur)
    ELSE sidebar_menu(ss, cur, menu, option, click, pick)

----------------------------------------------------------------------------
(* One browser session against a set of accounts *)

Usernames == {"a1", "p1", "n1", "n2", "nobody"}
Passwords == {"pw", "wrong"}
Picks == {"s1", "s2", "p1"}
Clicks == {"none", "toggle", "logout"}

\* the scripts of pages/ that run their view when they are opened
ReportPages ==
    {"pages/transcript_viewer.py", "pages/comparison_with_class_average.py",
     "pages/intervention_candidates.py"}

InitSession ==
    /\ newAdmin = <<[_id |-> "a1", username |-> "a1", password |-> "pw"]>>
    /\ newProfessors = <<[_id |-> "p1", username |-> "p1", password |-> "pw"]>>
    /\ newStudents = <<[_id |-> "s1", studentNumber |-> "n1", username |-> "n1",
                        password |-> "pw"],
                       [_id |-> "s2", studentNumber |-> "n2", username |-> "n2",
                        password |-> "pw"]>>
    /\ students = <<[_id |-> "s1"], [_id |-> "s2"]>>
    /\ grades = <<>>
    /\ subjects = EmptyDict
    /\ semesters = EmptyDict
    /\ newGrades = <<>>
    /\ newSubjects = EmptyDict
    /\ newSections = <<>>
    /\ curriculums = <<>>
    /\ newSemesters = EmptyDict
    /\ dist_grades = <<>>
    /\ curriculum_type = "absent"
    /\ session = [logged_in |-> "absent", username |-> "absent", role |-> "absent"]
    /\ page = "none"
    /\ NoLoad
    /\ cache = EmptyCache
    /\ out = NoOutput

\* the state a script run leaves
Run(script, option, left) ==
    /\ session' = left.session
    /\ curriculum_type' = left.curriculum_type
    /\ page' = left.page
    /\ out' = [fn |-> script, arg |-> option, val |-> left.val]
    /\ UNCHANGED <<collections, loader, cache>>

\* the browser opens app.py
OpenApp == Run("app.py", "", app(session, curriculum_type))

\* the Login button of app.py lines 55-66: a known account is logged in and
\* the dashboard runs with its widgets at their defaults
Login(username, password) ==
    /\ page = "app.py"
    /\ session.logged_in = "False"
    /\ LET role == authenticate_user(username, password)
           ss == [logged_in |-> "True", username |-> username, role |-> role]
       IN  IF role = "None"
           THEN Run("app.py", "", [session |-> session, curriculum_type |-> curriculum_type,
                                   page |-> "app.py", val |-> Shown("invalid")])
           ELSE Run("pages/dashboard.py", "Overview",
                    dashboard(ss, curriculum_type, MenusOf(role)[1], "Overview",
                              "none", "None"))

\* the browser opens pages/dashboard.py, or a widget of the sidebar is used
OpenDashboard(menu, option, click, pick) ==
    /\ session.logged_in = "True" =>
          /\ InSeq(menu, MenusOf(session.role))
          /\ option \in OptionsOf(menu)
          /\ click = "toggle" => session.role = "admin"
    /\ Run("pages/dashboard.py", option,
           dashboard(session, curriculum_type, menu, option, click, pick))

\* the browser opens a script of pages/ that ends in
\* if __name__ == "__main__": <view>()
OpenReportPage(script, pick) ==
    /\ script \in ReportPages
    /\ Run(script, "",
           [session |-> session, curriculum_type |-> curriculum_type, page |-> script,
            val |-> IF script = "pages/transcript_viewer.py"
                    THEN display_transcript_viewer(session, curriculum_type, pick)
                    ELSE IF script = "pages/comparison_with_class_average.py"
                    THEN comparison_with_class_average("Comparison with Class Average",
                             session, curriculum_type, pick)
                    ELSE display_intervention_candidates("Intervention Candidates List",
                             session, curriculum_type, pick)])

NextSession ==
    \/ OpenApp
    \/ \E u \in Usernames, p \in Passwords : Login(u, p)
    \/ \E menu \in {"Registrar", "Faculty", "Student"},
          option \in RegistrarOptions \cup FacultyOptions \cup StudentMenuOptions,
          click \in Clicks, pick \in Picks : OpenDashboard(menu, option, click, pick)
    \/ \E script \in ReportPages, pick \in Picks : OpenReportPage(script, pick)

SpecSession == InitSession /\ [][NextSession]_vars

\* the last script run rendered a report view
ViewShown == out.fn # "none" /\ out.val.kind = "view"

\* C25: in any sequence of logins, curriculum toggles and logouts of one
\* browser session, a report view rendered for a professor or a student is
\* rendered with curriculum_type "New Curriculum", also after an admin who
\* used the Old Curriculum logged out.
C25_NonAdminSeesNewCurriculum ==
    (ViewShown /\ out.val.role \in {"professor", "student"}) =>
        out.val.curriculum = New

\* a report view of the sidebar rendered for a professor
C25_Witness ==
    /\ ViewShown
    /\ out.fn = "pages/dashboard.py"
    /\ out.val.role = "professor"
    /\ out.val.view = "Class Grade Distribution"
    /\ out.val.curriculum = New

\* C26: a session that is not logged in, logged_in being absent or false,
\* never gets report content: neither a picker nor report data is rendered
\* for it, by the dashboard or by a report page of pages/.
C26_NoContentWithoutLogin ==
    session.logged_in # "True" => ~ViewShown

\* C27: role confinement.  A view rendered for a student belongs to the
\* Student menu, offers no picker and is computed for the student's own id;
\* a view rendered for a professor belongs to the Faculty menu; a view of
\* the Registrar menu is rendered for the admin only.
C27_RoleConfinement ==
    ViewShown =>
        /\ out.val.role = "student" =>
              /\ out.val.menu = "Student"
              /\ out.val.picker = "none"
              /\ out.val.subject =
                    FirstId(SelectSeq(newStudents, LAMBDA s : s.username = session.username))
        /\ out.val.role = "professor" => out.val.menu = "Faculty"
        /\ out.val.menu = "Registrar" => out.val.role = "admin"

----------------------------------------------------------------------------
(* pages/submission_status.py : Grade Submission Status of a professor *)

\* ((submitted / total) * 100).round(0): the nearest integer, a quotient
\* halfway between two integers going to the even one
round0(num, den) ==
    LET q == (num * 100) \div den
        r == (num * 100) % den
    IN  IF 2 * r < den THEN q
        ELSE IF 2 * r > den THEN q + 1
        ELSE IF q % 2 = 0 THEN q ELSE q + 1

\* 1 if g["Grades"][idx] else 0: None and 0 are false, every other number
\* and every string is true
Truthy(grade) == grade # None /\ grade # 0

\* a row of the table; astype(int) raises on the NaN of 0 / 0 and on the
\* inf of a division by zero
SubmissionRow(code, submitted, total) ==
    [Code |-> code, Submitted |-> submitted, Total |-> total,
     Rate |-> IF total = 0 THEN None ELSE round0(submitted, total)]

SubmissionTable(rows) ==
    IF \E k \in DOMAIN rows : rows[k].Total = 0 THEN Raise
    ELSE [kind |-> "table", v |-> rows]

\* get_old_submission_status(professor_fullname), no professors collection
\* being loaded: one row per position of Teachers that names the professor,
\* grouped by course, Submitted summed and the students counted once;
\* g["SubjectCodes"][idx] and g["Grades"][idx] raise IndexError on a
\* shorter list
get_old_submission_status(professor_fullname, gr) ==
    LET Mine(g) == {idx \in 1..Len(g.Teachers) : g.Teachers[idx] = professor_fullname}
        docs == {d \in 1..Len(gr) : Mine(gr[d]) # {}}
        rows == UNION {{<<d, idx>> : idx \in Mine(gr[d])} : d \in docs}
        codes == {gr[r[1]].SubjectCodes[r[2]] : r \in rows}
        Of(code) == {r \in rows : gr[r[1]].SubjectCodes[r[2]] = code}
    IN  IF \E d \in docs : \E idx \in Mine(gr[d]) :
               idx > Len(gr[d].SubjectCodes) \/ idx > Len(gr[d].Grades)
        THEN Raise
        ELSE SubmissionTable(
               [code \in codes |->
                  SubmissionRow(code,
                      Cardinality({r \in Of(code) : Truthy(gr[r[1]].Grades[r[2]])}),
                      Cardinality({gr[r[1]].StudentID : r \in Of(code)}))])

\* get_new_submission_status(professor_id): one row per section of the
\* professor, Total Students the length of studentIds and Submitted Grades
\* the newGrades documents of the subject that belong to a listed student
\* and carry a numericGrade
get_new_submission_status(professor_id, profs, sections, new_grades) ==
    LET mine == SelectSeq(sections, LAMBDA sec : sec.professorId = professor_id)
        Submitted(sec) ==
            Len(SelectSeq(new_grades, LAMBDA g :
                    /\ InSeq(g.studentId, sec.studentIds)
                    /\ g.subjectId = sec.subjectId
                    /\ g.numericGrade # None))
    IN  IF professor_id \notin profs THEN [kind |-> "table", v |-> <<>>]
        ELSE SubmissionTable(
               [i \in 1..Len(mine) |->
                  SubmissionRow(mine[i].subjectId, Submitted(mine[i]),
                                Len(mine[i].studentIds))])

----------------------------------------------------------------------------
(* Submission status applied to bounded collections *)

SubmissionGrades == {None, 70, 88}
SubmissionIds == {1, 2}

\* the lists of at most n elements of S
ListsUpTo(S, n) == UNION {[1..k -> S] : k \in 0..n}

OldSubmissionDocs ==
    [StudentID : SubmissionIds, SemesterID : {1}, SubjectCodes : {<<1>>, <<2>>},
     Grades : {<<g>> : g \in SubmissionGrades}, Teachers : {<<1>>, <<2>>}]

NewSubmissionDocs ==
    [studentId : SubmissionIds, termId : {1}, subjectId : SubmissionIds,
     numericGrade : {None, 88}]

SubmissionSections ==
    [professorId : {1}, subjectId : SubmissionIds,
     studentIds : {<<>>, <<1>>, <<1, 2>>}]

InitSubmissionOld ==
    /\ grades \in ListsUpTo(OldSubmissionDocs, MaxEnroll)
    /\ subjects = EmptyDict
    /\ students = SubmissionIds
    /\ semesters = EmptyDict
    /\ NoNewCollections
    /\ curriculum_type = "Old Curriculum"

InitSubmissionNew ==
    /\ newGrades \in ListsUpTo(NewSubmissionDocs, MaxEnroll)
    /\ newSections \in ListsUpTo(SubmissionSections, MaxEnroll)
    /\ newProfessors = {1}
    /\ newSubjects = EmptyDict
    /\ newStudents = SubmissionIds
    /\ newSemesters = EmptyDict
    /\ curriculums = <<>>
    /\ NoOldCollections
    /\ curriculum_type = "New Curriculum"

InitSubmission ==
    /\ InitSubmissionOld \/ InitSubmissionNew
    /\ dist_grades = <<>>
    /\ cache = EmptyCache
    /\ out = NoOutput
    /\ NoSession
    /\ NoLoad

\* display_submission_status(), Old Curriculum, for the selected professor
GetOldSubmissionStatus(prof) ==
    /\ curriculum_type = "Old Curriculum"
    /\ out' = [fn |-> "get_old_submission_status", arg |-> prof,
               val |-> get_old_submission_status(prof, grades)]
    /\ UNCHANGED <<inputs, cache>>

\* display_submission_status(), New Curriculum, for the selected professor
GetNewSubmissionStatus(prof_id) ==
    /\ curriculum_type = "New Curriculum"
    /\ out' = [fn |-> "get_new_submission_status", arg |-> prof_id,
               val |-> get_new_submission_status(prof_id, newProfessors,
                                                 newSections, newGrades)]
    /\ UNCHANGED <<inputs, cache>>

NextSubmission ==
    \/ \E prof \in SubmissionIds : GetOldSubmissionStatus(prof)
    \/ \E prof_id \in SubmissionIds : GetNewSubmissionStatus(prof_id)

SpecSubmission == InitSubmission /\ [][NextSubmission]_vars

\* C30: for every professor the computation of the Grade Submission Status
\* does not fail, also for a section without students and for a student
\* with several records of a subject, and every row has
\* 0 <= Submitted Grades <= Total Students and an integer Submission Rate
\* between 0 and 100.
C30_SubmissionWithinTotal ==
    out.fn \in {"get_old_submission_status", "get_new_submission_status"} =>
        /\ out.val.kind = "table"
        /\ \A k \in DOMAIN out.val.v :
              /\ out.val.v[k].Submitted \in 0..out.val.v[k].Total
              /\ out.val.v[k].Rate \in 0..100

----------------------------------------------------------------------------
(* Grade documents that lack their student or subject key *)

\* grades documents, StudentID being MISSING in a document without the key
KeylessOldDocs ==
    [StudentID : {1, 2, MISSING}, SemesterID : TermIds, SubjectCodes : {<<1>>},
     Grades : {<<70>>, <<88>>}]

\* newGrades documents, studentId or subjectId being MISSING
KeylessNewDocs ==
    [studentId : {1, MISSING}, termId : TermIds, subjectId : {1, MISSING},
     numericGrade : {70, 88}]

InitMissingKeyOld ==
    /\ grades \in UNION {[1..n -> KeylessOldDocs] : n \in 0..MaxEnroll}
    /\ subjects = [c \in {1} |-> [Code |-> c, Units |-> 3]]
    /\ students = StudentIds
    /\ semesters = OneSemester
    /\ NoNewCollections
    /\ curriculum_type = "Old Curriculum"

InitMissingKeyNew ==
    /\ newGrades \in UNION {[1..n -> KeylessNewDocs] : n \in 0..MaxEnroll}
    /\ newSubjects = [c \in {1} |-> [Code |-> c, Units |-> 3]]
    /\ newStudents = {1}
    /\ newSemesters = OneSemester
    /\ newSections = <<>>
    /\ newProfessors = {}
    /\ curriculums = <<>>
    /\ NoOldCollections
    /\ curriculum_type = "New Curriculum"

InitMissingKey ==
    /\ InitMissingKeyOld \/ InitMissingKeyNew
    /\ dist_grades = <<>>
    /\ cache = EmptyCache
    /\ out = NoOutput
    /\ NoSession
    /\ NoLoad

NextMissingKey ==
    \/ CalculateRetentionOld
    \/ CalculateRetentionNew
    \/ \E term \in TermIds : ComputeGpaNew(1, term)
    \/ FetchOldCurriculum

SpecMissingKey == InitMissingKey /\ [][NextMissingKey]_vars

\* the documents that carry the keys a computation reads: the student id,
\* and for a GPA the subject id too
WithKeysOld == SelectSeq(grades, LAMBDA g : g.StudentID # MISSING)
WithStudentNew == SelectSeq(newGrades, LAMBDA g : g.studentId # MISSING)
WithKeysNew == SelectSeq(WithStudentNew, LAMBDA g : g.subjectId # MISSING)

\* C21: a grade document that lacks its student id or subject id never
\* makes a report computation raise: the document is dropped, and the
\* computation returns the result of the remaining documents.
C21_KeylessRecordDropped ==
    /\ out.fn = "calculate_retention_old" =>
          /\ out.val.kind # "raise"
          /\ out.val = calculate_retention_old(WithKeysOld, semesters)
    /\ out.fn = "calculate_retention_new" =>
          /\ out.val.kind # "raise"
          /\ out.val = calculate_retention_new(WithStudentNew, newSemesters)
    /\ out.fn = "compute_gpa_new" =>
          /\ out.val.kind # "raise"
          /\ out.val = compute_gpa_new(out.arg[1], out.arg[2], WithKeysNew, newSubjects)
    /\ out.fn = "fetch_old_curriculum" =>
          /\ out.val.kind # "raise"
          /\ out.val = OldStandingTable(WithKeysOld, students, subjects)

----------------------------------------------------------------------------
(* Reports requested while the loaded collections change *)

\* the enrollments of a snapshot: none, or one enrollment of student 1
SnapshotEnrollments ==
    {<<>>} \cup {<<[student |-> 1, term |-> 1, subject |-> c, grade |-> g]>> :
                    c \in SubjectIds, g \in {70, 88}}

SnapshotCatalog == [c \in SubjectIds |-> [Code |-> c, Units |-> 3]]

InitSnapshotOld ==
    /\ \E E \in SnapshotEnrollments : grades = OldDocsOf(E)
    /\ subjects = SnapshotCatalog
    /\ students = StudentIds
    /\ semesters = OneSemester
    /\ NoNewCollections
    /\ curriculum_type = "Old Curriculum"

InitSnapshotNew ==
    /\ \E E \in SnapshotEnrollments : newGrades = NewDocsOf(E)
    /\ newSubjects = SnapshotCatalog
    /\ newStudents = StudentIds
    /\ newSemesters = OneSemester
    /\ newSections = <<>>
    /\ newProfessors = {}
    /\ curriculums = <<>>
    /\ NoOldCollections
    /\ curriculum_type = "New Curriculum"

InitSnapshot ==
    /\ InitSnapshotOld \/ InitSnapshotNew
    /\ dist_grades = <<>>
    /\ cache = EmptyCache
    /\ out = NoOutput
    /\ NoSession
    /\ NoLoad

\* data_collection.py line 57 in a new server process: data_collections is
\* loaded again and holds other grades; the files of cache/ stay, and no
\* report has been requested yet
ReloadGrades(E) ==
    /\ curriculum_type = "Old Curriculum"
    /\ grades' = OldDocsOf(E)
    /\ out' = NoOutput
    /\ UNCHANGED <<dist_grades, subjects, newGrades, newSubjects, newSections,
                   students, newStudents, semesters, newSemesters, newProfessors,
                   curriculums, newAdmin, curriculum_type, browser, loader, cache>>

ReloadNewGrades(E) ==
    /\ curriculum_type = "New Curriculum"
    /\ newGrades' = NewDocsOf(E)
    /\ out' = NoOutput
    /\ UNCHANGED <<dist_grades, grades, subjects, newSubjects, newSections,
                   students, newStudents, semesters, newSemesters, newProfessors,
                   curriculums, newAdmin, curriculum_type, browser, loader, cache>>

NextSnapshot ==
    \/ \E E \in SnapshotEnrollments : ReloadGrades(E)
    \/ \E E \in SnapshotEnrollments : ReloadNewGrades(E)
    \/ FetchPassFailOld
    \/ FetchPassFailNew
    \/ FetchOldCurriculum

SpecSnapshot == InitSnapshot /\ [][NextSnapshot]_vars

\* C22: the engine holds no cache: in any sequence of snapshot changes and
\* report requests a report computation returns the result derived from
\* the snapshot current at the time of the request, never a result stored
\* by an earlier request.
C22_ResultOfCurrentSnapshot ==
    /\ out.fn = "fetch_pass_fail_old" =>
          out.val = OldPassFailTable(grades, semesters)
    /\ out.fn = "fetch_pass_fail_new" =>
          out.val = NewPassFailTable(newGrades, newSubjects, newSemesters)
    /\ out.fn = "fetch_old_curriculum" =>
          out.val = OldStandingTable(grades, students, subjects)

----------------------------------------------------------------------------
(* pages/inc.py : Incomplete Grades Report *)

RECURSIVE Reverse(_)
Reverse(s) == IF s = <<>> THEN <<>> ELSE Append(Reverse(Tail(s)), Head(s))

\* lines 53-76: one row per position of SubjectCodes whose grade is "INC",
\* "Dropped" or None, a position behind the end of Grades counting as None;
\* Grade Status is the grade, "INC" when it is None.  sid = g["StudentID"]
\* raises KeyError on a document without the key
OldIncompleteTable(gr, sems) ==
    LET GradeAt(g, idx) == IF idx <= Len(g.Grades) THEN g.Grades[idx] ELSE None
        RowsOf(g) ==
            LET open == SelectSeq([idx \in 1..Len(g.SubjectCodes) |-> idx],
                            LAMBDA idx : GradeAt(g, idx) \in {INC, DROPPED, None})
            IN  [k \in 1..Len(open) |->
                    [Student |-> g.StudentID, Code |-> g.SubjectCodes[open[k]],
                     Term |-> SemLabel(sems, g.SemesterID),
                     Status |-> IF GradeAt(g, open[k]) = None THEN INC
                                ELSE GradeAt(g, open[k])]]
    IN  IF \E d \in 1..Len(gr) : gr[d].StudentID = MISSING THEN Raise
        ELSE [kind |-> "table", v |-> Flatten([d \in 1..Len(gr) |-> RowsOf(gr[d])])]

\* lines 94-115: one row per newGrades document whose status is "INC" or
\* "Dropped" or whose numericGrade is None; Grade Status is the status,
\* "INC" when the document has none ("" standing for no status)
NewIncompleteTable(gr, subjs, sems) ==
    LET open == SelectSeq(gr, LAMBDA g :
                    g.status \in {"INC", "Dropped"} \/ g.numericGrade = None)
    IN  IF \E d \in 1..Len(gr) : gr[d].studentId = MISSING THEN Raise
        ELSE [kind |-> "table",
              v |-> [k \in 1..Len(open) |->
                      [Student |-> open[k].studentId,
                       Code |-> SubjectCodeOf(subjs, open[k].subjectId),
                       Term |-> SemLabel(sems, open[k].termId),
                       Status |-> IF open[k].status = "" THEN "INC"
                                  ELSE open[k].status]]]

\* what a cached fetch returns and leaves in its cache file, df being the
\* table it computes when load_cache gives None, and a table with the rows
\* in the opposite order being pickled
fetch_cached_SavesReversed(file, df) ==
    IF file.exists THEN [returns |-> file.data, file |-> file]
    ELSE [returns |-> df,
          file |-> IF df.kind = "raise" THEN file
                   ELSE [exists |-> TRUE, data |-> [df EXCEPT !.v = Reverse(@)]]]

\* inc.py lines 44-46 and 76-78, intervention_candidates.py lines 210-214:
\* the unpickled table when the cache file exists, else the computed table,
\* which is pickled before it is returned; a computation that raises
\* writes no file
fetch_cached(file, df) ==
    IF file.exists THEN [returns |-> file.data, file |-> file]
    ELSE [returns |-> df,
          file |-> IF df.kind = "raise" THEN file
                   ELSE [exists |-> TRUE, data |-> df]]

----------------------------------------------------------------------------
(* pages/intervention_candidates.py : Intervention Candidates, Old schema *)

\* get_intervention_old(prof_name): the positions taught by the professor
\* whose grade is missing, below 60 or below 75
get_intervention_old(prof_name, gr) ==
    LET GradeAt(g, idx) == IF idx <= Len(g.Grades) THEN g.Grades[idx] ELSE None
        TeacherAt(g, idx) == IF idx <= Len(g.Teachers) THEN g.Teachers[idx] ELSE None
        Flagged(g, idx) ==
            /\ TeacherAt(g, idx) = prof_name
            /\ \/ GradeAt(g, idx) \in {None, INC}
               \/ IsNumber(GradeAt(g, idx)) /\ GradeAt(g, idx) < 75
        RowsOf(g) ==
            LET risky == SelectSeq([idx \in 1..Len(g.SubjectCodes) |-> idx],
                             LAMBDA idx : Flagged(g, idx))
            IN  [k \in 1..Len(risky) |->
                    [Student |-> g.StudentID, Code |-> g.SubjectCodes[risky[k]],
                     Grade |-> IF GradeAt(g, risky[k]) = None THEN INC
                               ELSE GradeAt(g, risky[k]),
                     Risk |-> IF ~IsNumber(GradeAt(g, risky[k])) THEN "Missing Grade"
                              ELSE IF GradeAt(g, risky[k]) < 60 THEN "At Risk (<60)"
                              ELSE "Fail (<75)"]]
    IN  IF \E d \in 1..Len(gr) : gr[d].StudentID = MISSING THEN Raise
        ELSE [kind |-> "table", v |-> Flatten([d \in 1..Len(gr) |-> RowsOf(gr[d])])]

InterventionFile(prof) ==
    IF prof = 1 THEN "intervention_Old Curriculum_1.pkl"
    ELSE "intervention_Old Curriculum_2.pkl"

----------------------------------------------------------------------------
(* Reports run again on unchanged collections *)

RerunOldDocs ==
    [StudentID : StudentIds, SemesterID : TermIds, SubjectCodes : {<<1, 2>>},
     Grades : {<<None, 50>>, <<INC, 88>>, <<70>>}, Teachers : {<<1, 2>>, <<1>>}]

RerunNewDocs ==
    [studentId : StudentIds, termId : TermIds, subjectId : {1},
     numericGrade : {None, 70}, status : {"", "INC"}]

InitRerunOld ==
    /\ grades \in UNION {[1..n -> RerunOldDocs] : n \in 0..MaxEnroll}
    /\ subjects = EmptyDict
    /\ students = StudentIds
    /\ semesters = OneSemester
    /\ NoNewCollections
    /\ curriculum_type = "Old Curriculum"

InitRerunNew ==
    /\ newGrades \in UNION {[1..n -> RerunNewDocs] : n \in 0..MaxEnroll}
    /\ newSubjects = EmptyDict
    /\ newStudents = StudentIds
    /\ newSemesters = OneSemester
    /\ newSections = <<>>
    /\ newProfessors = {}
    /\ curriculums = <<>>
    /\ NoOldCollections
    /\ curriculum_type = "New Curriculum"

InitRerun ==
    /\ InitRerunOld \/ InitRerunNew
    /\ dist_grades = <<>>
    /\ cache = EmptyCache
    /\ out = NoOutput
    /\ NoSession
    /\ NoLoad

\* a cached fetch: its value is returned and its file is left in cache/
Fetch(fn, arg, file, df) ==
    LET done == fetch_cached(cache[file], df)
    IN  /\ out' = [fn |-> fn, arg |-> arg, val |-> done.returns]
        /\ cache' = [cache EXCEPT ![file] = done.file]
        /\ UNCHANGED inputs

\* fetch_incomplete_old()
FetchIncompleteOld ==
    /\ curriculum_type = "Old Curriculum"
    /\ Fetch("fetch_incomplete_old", 0, "old_incomplete.pkl",
             OldIncompleteTable(grades, semesters))

\* fetch_incomplete_new()
FetchIncompleteNew ==
    /\ curriculum_type = "New Curriculum"
    /\ Fetch("fetch_incomplete_new", 0, "new_incomplete.pkl",
             NewIncompleteTable(newGrades, newSubjects, newSemesters))

\* display_intervention_candidates(), Old Curriculum, for the selected
\* professor
DisplayInterventionOld(selected_prof) ==
    /\ curriculum_type = "Old Curriculum"
    /\ Fetch("display_intervention_candidates", selected_prof,
             InterventionFile(selected_prof),
             get_intervention_old(selected_prof, grades))

NextRerun ==
    \/ FetchIncompleteOld
    \/ FetchIncompleteNew
    \/ \E prof \in ProfessorIds : DisplayInterventionOld(prof)
    \/ CalculateRetentionOld
    \/ CalculateRetentionNew

SpecRerun == InitRerun /\ [][NextRerun]_vars

====
